---- MODULE Spec2Model ----
(***************************************************************************)
(* Ephemeron: expiry tracking of container images in a Redis coordination  *)
(* store, and the reap cycle that deletes expired images.                  *)
(*                                                                         *)
(* A string is a sequence of tokens: a token is either the separator ":"   *)
(* or a run of characters that holds no ":".  A Redis key and an image     *)
(* reference are such strings, and they share the key space of the store.  *)
(* A decimal number string is a sequence of one-character tokens.          *)
(***************************************************************************)
EXTENDS Integers, Sequences, FiniteSets, TLC

\* ------------------------------------------------------------ bounds
\* time.Time units per millisecond (Go: 1e6 ns), scaled down.
SubMs == 2
\* Largest wall-clock reading, in milliseconds, the model's clock reaches.
MaxTime == 3
\* Lease of the reaper lock, in clock ticks (the program uses five minutes).
LeaseDuration == 2
\* Process crashes (or cancellations) a behaviour may hold.
MaxCrashes == 1

\* ------------------------------------------------------------ strings
Colon == ":"

RefA == <<"myapp", ":", "5m">>
RefB == <<"myapp", ":", "1h">>
RefBad == <<"no-colon-here">>

Refs == {RefA, RefB, RefBad}

imagesKey == <<"current.images">>
reaperLockKey == <<"reaper.lock">>
initializedKey == <<"ephemeron", ":", "initialized">>

Keys == {imagesKey, reaperLockKey, initializedKey} \cup Refs

Digits == <<"0", "1", "2", "3", "4", "5", "6", "7", "8", "9">>

IsDigit(c) == \E i \in 1..10 : Digits[i] = c

DigitVal(c) == (CHOOSE i \in 1..10 : Digits[i] = c) - 1

RECURSIVE FormatNat(_)
FormatNat(n) ==
  IF n < 10 THEN <<Digits[n + 1]>>
  ELSE FormatNat(n \div 10) \o <<Digits[(n % 10) + 1]>>

\* strconv.FormatInt(n, 10)
FormatInt(n) == IF n < 0 THEN <<"-">> \o FormatNat(0 - n) ELSE FormatNat(n)

RECURSIVE ParseNat(_, _)
ParseNat(s, acc) ==
  IF s = <<>> THEN acc ELSE ParseNat(Tail(s), acc * 10 + DigitVal(Head(s)))

\* strconv.ParseInt(s, 10, 64): [ok, v]; v is 0 when the syntax is wrong.
ParseInt(s) ==
  LET signed == s # <<>> /\ Head(s) \in {"-", "+"}
      body == IF signed THEN Tail(s) ELSE s
      good == body # <<>> /\ \A i \in 1..Len(body) : IsDigit(body[i])
  IN IF ~good THEN [ok |-> FALSE, v |-> 0]
     ELSE [ok |-> TRUE,
           v |-> IF signed /\ Head(s) = "-" THEN 0 - ParseNat(body, 0)
                 ELSE ParseNat(body, 0)]

\* time.Time.UnixMilli: whole milliseconds of an instant given in SubMs units.
UnixMilli(t) == t \div SubMs

\* ------------------------------------------------------------ Redis values
None == [t |-> "none"]
SetVal(m) == [t |-> "set", m |-> m]
HashVal(c, e) == [t |-> "hash", created |-> c, expires |-> e]
StrVal(v) == [t |-> "str", v |-> v]

EmptyDb == [k \in Keys |-> None]

\* SADD key member
SAdd(d, key, member) ==
  IF d[key].t = "none" THEN [d EXCEPT ![key] = SetVal({member})]
  ELSE IF d[key].t = "set" THEN [d EXCEPT ![key] = SetVal(d[key].m \cup {member})]
  ELSE d

\* SREM key member: a set that becomes empty is removed.
SRem(d, key, member) ==
  IF d[key].t = "set"
  THEN IF d[key].m \ {member} = {} THEN [d EXCEPT ![key] = None]
       ELSE [d EXCEPT ![key] = SetVal(d[key].m \ {member})]
  ELSE d

\* HSET key created c expires e
HSet(d, key, c, e) ==
  IF d[key].t \in {"none", "hash"} THEN [d EXCEPT ![key] = HashVal(c, e)]
  ELSE d

\* DEL key
Del(d, key) == [d EXCEPT ![key] = None]

\* SMEMBERS key
SMembers(d, key) == IF d[key].t = "set" THEN d[key].m ELSE {}

\* HGET key expires: redis.Nil for a missing key, WRONGTYPE for another type.
HGetExpires(d, key) ==
  IF d[key].t = "hash" THEN [ok |-> TRUE, v |-> d[key].expires]
  ELSE [ok |-> FALSE, v |-> <<>>]

\* A pipelined command.
Cmd(op, key, a1, a2) == [op |-> op, key |-> key, a1 |-> a1, a2 |-> a2]

\* What the server does with one command.
Apply(d, c) ==
  CASE c.op = "SADD" -> SAdd(d, c.key, c.a1)
    [] c.op = "SREM" -> SRem(d, c.key, c.a1)
    [] c.op = "HSET" -> HSet(d, c.key, c.a1, c.a2)
    [] c.op = "DEL" -> Del(d, c.key)

RECURSIVE ApplyAll(_, _)
ApplyAll(d, cmds) ==
  IF cmds = <<>> THEN d ELSE ApplyAll(Apply(d, Head(cmds)), Tail(cmds))

\* ------------------------------------------------------------ store client
\* TrackImage writing the instant in its own units, not in milliseconds.
TrackImageRawUnits(imageWithTag, expiresAt, nowMs) ==
  << Cmd("SADD", imagesKey, imageWithTag, <<>>),
     Cmd("HSET", imageWithTag, FormatInt(nowMs), FormatInt(expiresAt)) >>

\* The commands TrackImage puts in its pipeline.
TrackImage(imageWithTag, expiresAt, nowMs) ==
  << Cmd("SADD", imagesKey, imageWithTag, <<>>),
     Cmd("HSET", imageWithTag, FormatInt(nowMs), FormatInt(UnixMilli(expiresAt))) >>

\* RemoveImage that leaves the metadata record behind.
RemoveImageKeepsRecord(imageWithTag) ==
  << Cmd("SREM", imagesKey, imageWithTag, <<>>) >>

\* RemoveImage that deletes the tracking set's key, not the image's.
RemoveImageWrongKey(imageWithTag) ==
  << Cmd("SREM", imagesKey, imageWithTag, <<>>),
     Cmd("DEL", imagesKey, <<>>, <<>>) >>

\* The commands RemoveImage puts in its pipeline.
RemoveImage(imageWithTag) ==
  << Cmd("SREM", imagesKey, imageWithTag, <<>>),
     Cmd("DEL", imageWithTag, <<>>, <<>>) >>

ListImages(d) == SMembers(d, imagesKey)

\* GetExpiry reading the "created" field.
GetExpiryReadsCreated(d, imageWithTag) ==
  IF d[imageWithTag].t # "hash" THEN [ok |-> FALSE, v |-> 0]
  ELSE ParseInt(d[imageWithTag].created)

\* GetExpiry asking for a field the record does not hold: redis.Nil.
GetExpiryMissingField(d, imageWithTag) == [ok |-> FALSE, v |-> 0]

\* A mutant of GetExpiry: a missing record reads as the expiry 0, without error.
GetExpiryZeroWhenAbsent(d, imageWithTag) ==
  LET val == HGetExpires(d, imageWithTag)
  IN IF ~val.ok THEN [ok |-> TRUE, v |-> 0] ELSE ParseInt(val.v)

GetExpiry(d, imageWithTag) ==
  LET val == HGetExpires(d, imageWithTag)
  IN IF ~val.ok THEN [ok |-> FALSE, v |-> 0] ELSE ParseInt(val.v)

ImageCount(d) == Cardinality(SMembers(d, imagesKey))

IsInitialized(d) == d[initializedKey].t # "none"

\* A mutant of SetInitialized: the store is flushed before the marker is set.
SetInitializedFlushes(d) == [EmptyDb EXCEPT ![initializedKey] = StrVal(<<"true">>)]

\* SET ephemeron:initialized "true": SET replaces a value of any type.
SetInitialized(d) == [d EXCEPT ![initializedKey] = StrVal(<<"true">>)]


\* SET key val NX EX ex: [ok, db, ttl]; t is the key's present time to live.
SetNX(d, t, key, val, ex) ==
  IF d[key].t = "none"
  THEN [ok |-> TRUE, db |-> [d EXCEPT ![key] = StrVal(val)], ttl |-> ex]
  ELSE [ok |-> FALSE, db |-> d, ttl |-> t]

\* AcquireReaperLock with SET in place of SET NX: it overwrites a held lock.
AcquireReaperLockOverwrites(d, t, ttl) ==
  [ok |-> TRUE, db |-> [d EXCEPT ![reaperLockKey] = StrVal(<<"locked">>)], ttl |-> ttl]

\* AcquireReaperLock that sets the lock without an expiry.
AcquireReaperLockNoExpiry(d, t, ttl) == SetNX(d, t, reaperLockKey, <<"locked">>, 0)

\* AcquireReaperLock that restarts the lease of a held lock when it is refused.
AcquireReaperLockRefreshes(d, t, ttl) ==
  IF d[reaperLockKey].t = "none" THEN SetNX(d, t, reaperLockKey, <<"locked">>, ttl)
  ELSE [ok |-> FALSE, db |-> d, ttl |-> ttl]

AcquireReaperLock(d, t, ttl) == SetNX(d, t, reaperLockKey, <<"locked">>, ttl)

\* ReleaseReaperLock that deletes nothing.
ReleaseReaperLockKeeps(d) == d

ReleaseReaperLock(d) == Del(d, reaperLockKey)

\* ------------------------------------------------------------ durations
\* time.Duration is a signed integer that wraps around; the model counts seconds in
\* DurBits bits where the program counts nanoseconds in 64.
DurBits == 24
Modulus == 2 ^ DurBits
MaxInt == 2 ^ (DurBits - 1) - 1

Second == 1
Minute == 60 * Second
Hour == 60 * Minute

\* The signed value of a bit pattern.
Signed(x) == IF (x % Modulus) > MaxInt THEN (x % Modulus) - Modulus ELSE x % Modulus

\* a * b as the machine multiplies, for a and b not negative.
RECURSIVE Times(_, _)
Times(a, b) ==
  IF b = 0 THEN 0
  ELSE (2 * Times(a, b \div 2) + (b % 2) * (a % Modulus)) % Modulus

\* strconv.Atoi of a string of digits: out of range it returns the largest int
\* (and an error, which ParseTTL drops).
Atoi(s) == IF ParseNat(s, 0) > MaxInt THEN MaxInt ELSE ParseNat(s, 0)

\* durationPattern: ^(?:(\d+)w)?(?:(\d+)d)?(?:(\d+)h)?(?:(\d+)m)?(?:(\d+)s)?$
Units == <<"w", "d", "h", "m", "s">>
UnitOf(c) == IF \E u \in 1..5 : Units[u] = c THEN CHOOSE u \in 1..5 : Units[u] = c ELSE 0
UnitFactor == <<7 * 24 * Hour, 24 * Hour, Hour, Minute, Second>>

\* The first position from p on that holds no digit.
RECURSIVE DigitsEnd(_, _)
DigitsEnd(tag, p) ==
  IF p > Len(tag) \/ ~IsDigit(tag[p]) THEN p ELSE DigitsEnd(tag, p + 1)

\* Matching from position p with the groups from u on: m holds the groups so far.
RECURSIVE Submatch(_, _, _, _)
Submatch(tag, p, u, m) ==
  IF p > Len(tag) THEN [ok |-> TRUE, m |-> m]
  ELSE LET q == DigitsEnd(tag, p)
       IN IF q = p \/ q > Len(tag) \/ UnitOf(tag[q]) < u
          THEN [ok |-> FALSE, m |-> m]
          ELSE Submatch(tag, q + 1, UnitOf(tag[q]) + 1,
                        [m EXCEPT ![UnitOf(tag[q])] = SubSeq(tag, p, q - 1)])

FindStringSubmatch(tag) == Submatch(tag, 1, 1, [u \in 1..5 |-> <<>>])

\* The duration the groups add up to, wrapping as the machine adds.
RECURSIVE SumGroups(_, _)
SumGroups(m, u) ==
  IF u > 5 THEN 0
  ELSE (SumGroups(m, u + 1)
        + (IF m[u] = <<>> THEN 0 ELSE Times(Atoi(m[u]), UnitFactor[u]))) % Modulus

ParseTTL(tag) ==
  IF tag = <<>> THEN -1
  ELSE LET matches == FindStringSubmatch(tag)
       IN IF ~matches.ok THEN -1
          ELSE IF \A u \in 1..5 : matches.m[u] = <<>> THEN -1
          ELSE Signed(SumGroups(matches.m, 1))

\* ClampTTL that lets a zero duration through.
ClampTTLKeepsZero(d, defaultTTL, maxTTL) ==
  IF d < 0 THEN defaultTTL
  ELSE IF d > maxTTL THEN maxTTL
  ELSE d

ClampTTL(d, defaultTTL, maxTTL) ==
  IF d <= 0 THEN defaultTTL
  ELSE IF d > maxTTL THEN maxTTL
  ELSE d

\* ------------------------------------------------------------ state
Replicas == {"r1", "r2"}
Clients == {"c1", "c2"}
Runners == {"rec"}
Procs == Replicas \cup Clients \cup Runners

NoRef == <<>>

VARIABLES
  db,        \* the coordination store: key -> value
  lockTTL,   \* remaining time to live of reaper.lock (0: none)
  now,       \* wall clock, milliseconds
  pipe,      \* per process: pipelined commands sent and not yet executed
  pc,        \* per replica: position in the reap cycle
  snap,      \* per replica: the snapshot ListImages returned
  todo,      \* per replica: snapshot members not yet evaluated
  cycleNow,  \* per replica: the clock reading of the cycle
  cur,       \* per replica: the image deleteImage is working on
  cycleErr,  \* per replica: the error ReapOnce returns
  invoked,   \* per replica: images deleteImage was called for in this cycle
  res,       \* per replica: image -> outcome of deleteImage in this cycle
  lease,     \* per replica: remaining time of the lease it acquired
  owed,      \* per replica: lastFailed when the cycle acquired the lock
  lastFailed,\* images whose latest deleteImage failed
  grants,    \* successful acquisitions since the lock was last absent
  holder,    \* the replica whose SETNX created the present lock
  orphaned,  \* a cycle ended without release while holding the lock
  crashes,   \* crashes so far
  db0,       \* the store at the start
  hist,      \* sequential caller: the calls completed so far
  tagCase,   \* a tag on its way through ParseTTL and ClampTTL
  rec,       \* the recovery runner: position, catalog left to scan, what it did
  hook,      \* the webhook handler: the request, events left, calls made, status
  cli,       \* the command line: the command, its configuration, how it started
  registry,  \* the registry: image -> the digest its tag resolves to
  listing    \* the registry client's listing call: pages asked for, names gathered

storeVars == <<db, lockTTL>>
cycleVars == <<pc, snap, todo, cycleNow, cur, cycleErr, invoked, res, lease, owed>>
lockHist == <<grants, holder, orphaned>>
callerVars == <<tagCase, rec, hook, cli, listing>>
sideVars == <<tagCase, rec, hook, cli, registry, listing>>
vars == <<db, lockTTL, now, pipe, pc, snap, todo, cycleNow, cur, cycleErr,
          invoked, res, lease, owed, lastFailed, grants, holder, orphaned,
          crashes, db0, hist, tagCase, rec, hook, cli, registry, listing>>

\* The image ephemeron:initialized is a reference as well: it has the marker's key.
NoRes == [i \in Refs \cup {initializedKey} |-> "none"]

\* No tag is being converted; the recovery runner has not been started.
NoTagCase == [step |-> "none"]
NoCalls == [catalog |-> 0, track |-> 0, mark |-> 0]
NoRec ==
  [pc |-> "Off",          \* position of the runner
   cmd |-> "none",        \* the command that invoked it
   started |-> 0,         \* invocations so far
   repos |-> <<>>,        \* repositories left to scan, the present one first
   tags |-> <<>>,         \* tags of the present repository left to track
   initialized |-> FALSE, \* what IsInitialized answered in this invocation
   calls |-> NoCalls,     \* calls made in this invocation
   err |-> FALSE,         \* this invocation returned an error
   before |-> EmptyDb,    \* the store when this invocation began
   runs |-> 0,            \* returns of Run without error
   first |-> EmptyDb,     \* the store when Run first returned
   failed |-> FALSE,      \* a listing or a TrackImage call failed in some run
   checkErr |-> FALSE,    \* IsInitialized failed in this invocation
   reposErr |-> FALSE,    \* ListRepositories failed in this invocation
   prevReposErr |-> FALSE,\* ListRepositories failed in the invocation before
   returned |-> FALSE,    \* Run returned nil in this invocation
   listed |-> {},         \* repositories whose ListTags succeeded in this invocation
   passed |-> {}]         \* TrackImage calls of this invocation: image, expiry, clock

\* No request has reached the webhook handler.
NoHook ==
  [pc |-> "Idle",      \* position of ServeHTTP
   method |-> "",      \* the request's method
   auth |-> <<>>,      \* its Authorization header
   body |-> <<>>,      \* its body: a list of events, or "garbage"
   events |-> <<>>,    \* events not yet handled
   status |-> 0,       \* the status written
   tracks |-> <<>>,    \* TrackImage calls: image, expiry, clock
   errs |-> 0,         \* handlePush calls that returned an error
   before |-> {}]      \* the tracking set when the request arrived

\* What the registry holds for an image: the digest of the manifest its tag points
\* to, Gone when the tag resolves to nothing, Unknown when the model leaves it open.
Unknown == "unknown"
Gone == "gone"
Digests == {"sha256:abc123", "sha256:def456"}
AnyRegistry == [i \in Refs \cup {initializedKey} |-> Unknown]

\* The registry client has listed nothing.
NoFault == [at |-> 0, kind |-> "none"]
NoListing ==
  [pc |-> "Idle",      \* Idle, Loop, Done
   op |-> "none",      \* catalog (ListRepositories) or tags (ListTags)
   pages |-> <<>>,     \* what the registry holds, page by page
   fault |-> NoFault,  \* the request that goes wrong, and how
   url |-> 0,          \* the page the next request asks for; 0 is the empty url
   all |-> <<>>,       \* the names gathered
   calls |-> 0,        \* requests issued
   err |-> FALSE,      \* the call returned an error
   result |-> <<>>]    \* the list the call returned

\* No command has been started.
NoErr == ""
NoConfig == [RedisURL |-> "", HookToken |-> "", RegistryURL |-> "", DefaultTTL |-> 0,
             MaxTTL |-> 0]
NoCli ==
  [pc |-> "Idle",      \* Idle, Checked, Exit, Connected
   cmd |-> "none",     \* serve, reap or recover
   cfg |-> NoConfig,   \* the configuration
   err |-> NoErr,      \* the error Validate or the command returned
   dialed |-> FALSE]   \* redisclient.New has been called

\* Everything but the store and the clock, as it is before anything ran.
FreshCycles ==
  /\ lockTTL = 0
  /\ pipe = [p \in Procs |-> <<>>]
  /\ pc = [r \in Replicas |-> "Idle"]
  /\ snap = [r \in Replicas |-> {}]
  /\ todo = [r \in Replicas |-> {}]
  /\ cycleNow = [r \in Replicas |-> 0]
  /\ cur = [r \in Replicas |-> NoRef]
  /\ cycleErr = [r \in Replicas |-> FALSE]
  /\ invoked = [r \in Replicas |-> {}]
  /\ res = [r \in Replicas |-> NoRes]
  /\ lease = [r \in Replicas |-> 0]
  /\ owed = [r \in Replicas |-> {}]
  /\ lastFailed = {}
  /\ grants = 0
  /\ holder = "none"
  /\ orphaned = FALSE
  /\ crashes = 0
  /\ hist = [calls |-> <<>>, mid |-> EmptyDb]

Unstarted ==
  /\ FreshCycles /\ tagCase = NoTagCase /\ rec = NoRec /\ hook = NoHook
  /\ cli = NoCli /\ listing = NoListing

\* Nothing ran, and nothing is said of what the registry holds.
Fresh == Unstarted /\ registry = AnyRegistry

\* ------------------------------------------------------------ server
\* The server executes the next pipelined command of process p.
ExecCmd(p) ==
  /\ pipe[p] # <<>>
  /\ db' = Apply(db, Head(pipe[p]))
  /\ pipe' = [pipe EXCEPT ![p] = Tail(@)]
  /\ UNCHANGED <<lockTTL, now, cycleVars, lastFailed, lockHist, crashes, db0, hist>>
  /\ UNCHANGED sideVars

\* The clock advances one millisecond (it stops at MaxTime); the lock's time to
\* live and every acquired lease run down, and a lock whose time is up is expired.
Tick ==
  /\ now < MaxTime \/ lockTTL > 0 \/ \E r \in Replicas : lease[r] > 0
  /\ now' = IF now < MaxTime THEN now + 1 ELSE now
  /\ lockTTL' = IF lockTTL > 0 THEN lockTTL - 1 ELSE 0
  /\ db' = IF lockTTL = 1 THEN Del(db, reaperLockKey) ELSE db
  /\ lease' = [r \in Replicas |-> IF lease[r] > 0 THEN lease[r] - 1 ELSE 0]
  /\ grants' = IF lockTTL = 1 THEN 0 ELSE grants
  /\ holder' = IF lockTTL = 1 THEN "none" ELSE holder
  /\ UNCHANGED <<pipe, pc, snap, todo, cycleNow, cur, cycleErr, invoked, res, owed,
                 lastFailed, orphaned, crashes, db0, hist>>
  /\ UNCHANGED sideVars

\* ------------------------------------------------------------ store callers
\* A client calls TrackImage: the pipeline is sent.
ClientTrack(c, imageWithTag, expiresAt) ==
  /\ pipe[c] = <<>>
  /\ pipe' = [pipe EXCEPT ![c] = TrackImage(imageWithTag, expiresAt, now)]
  /\ UNCHANGED <<storeVars, now, cycleVars, lastFailed, lockHist, crashes, db0, hist>>
  /\ UNCHANGED sideVars

\* A client calls RemoveImage: the pipeline is sent.
ClientRemove(c, imageWithTag) ==
  /\ pipe[c] = <<>>
  /\ pipe' = [pipe EXCEPT ![c] = RemoveImage(imageWithTag)]
  /\ UNCHANGED <<storeVars, now, cycleVars, lastFailed, lockHist, crashes, db0, hist>>
  /\ UNCHANGED sideVars

\* The two latest calls of the sequential caller.
Latest(h) == IF Len(h) > 2 THEN Tail(h) ELSE h

\* The caller's record after one more call: the two latest calls, and the store as
\* it was between them.
Called(op, imageWithTag, expiresAt) ==
  [calls |-> Latest(Append(hist.calls, [op |-> op, ref |-> imageWithTag, e |-> expiresAt])),
   mid |-> db]

\* A call of the sequential caller runs to its end before the next begins.
SeqTrack(imageWithTag, expiresAt) ==
  /\ db' = ApplyAll(db, TrackImage(imageWithTag, expiresAt, now))
  /\ hist' = Called("track", imageWithTag, expiresAt)
  /\ UNCHANGED <<lockTTL, now, pipe, cycleVars, lastFailed, lockHist, crashes, db0>>
  /\ UNCHANGED sideVars

SeqRemove(imageWithTag) ==
  /\ db' = ApplyAll(db, RemoveImage(imageWithTag))
  /\ hist' = Called("remove", imageWithTag, 0)
  /\ UNCHANGED <<lockTTL, now, pipe, cycleVars, lastFailed, lockHist, crashes, db0>>
  /\ UNCHANGED sideVars

\* ------------------------------------------------------------ reap cycle
\* A mutant of WellFormed: every reference is taken for well-formed.
WellFormedAny(image) == TRUE

\* A reference splits into exactly a repository part and a tag part.
WellFormed(image) ==
  /\ Cardinality({i \in 1..Len(image) : image[i] = Colon}) = 1
  /\ Head(image) # Colon
  /\ image[Len(image)] # Colon

\* Answers of the registry to HEAD /v2/<repo>/manifests/<tag> and to
\* DELETE /v2/<repo>/manifests/<digest>; 0 is a transport error.
HeadStatuses == {200, 404, 500, 0}
DeleteStatuses == {200, 202, 404, 500, 0}

InCycle == {"Scanning", "Evaluating", "Head", "Delete", "Removing", "Release"}

\* LockAttempt: the cycle starts with AcquireReaperLock; without the lock it is
\* Skipped.
Acquire(r) ==
  /\ pc[r] \in {"Idle", "Skipped"}
  /\ LET got == AcquireReaperLock(db, lockTTL, LeaseDuration)
     IN /\ db' = got.db
        /\ lockTTL' = got.ttl
        /\ pc' = [pc EXCEPT ![r] = IF got.ok THEN "Scanning" ELSE "Skipped"]
        /\ lease' = [lease EXCEPT ![r] = IF got.ok THEN got.ttl ELSE @]
        /\ grants' = IF got.ok THEN grants + 1 ELSE grants
        /\ holder' = IF got.ok THEN r ELSE holder
        /\ orphaned' = IF got.ok THEN FALSE ELSE orphaned
  /\ snap' = [snap EXCEPT ![r] = {}]
  /\ todo' = [todo EXCEPT ![r] = {}]
  /\ cur' = [cur EXCEPT ![r] = NoRef]
  /\ cycleErr' = [cycleErr EXCEPT ![r] = FALSE]
  /\ invoked' = [invoked EXCEPT ![r] = {}]
  /\ res' = [res EXCEPT ![r] = NoRes]
  /\ owed' = [owed EXCEPT ![r] = lastFailed]
  /\ UNCHANGED <<now, pipe, cycleNow, lastFailed, crashes, db0, hist>>
  /\ UNCHANGED sideVars

\* Scanning: ListImages; its failure aborts the cycle with an error.
Scan(r) ==
  /\ pc[r] = "Scanning"
  /\ \E listed \in BOOLEAN :
       IF listed
       THEN /\ snap' = [snap EXCEPT ![r] = ListImages(db)]
            /\ todo' = [todo EXCEPT ![r] = ListImages(db)]
            /\ cycleNow' = [cycleNow EXCEPT ![r] = now]
            /\ pc' = [pc EXCEPT ![r] = "Evaluating"]
            /\ UNCHANGED cycleErr
       ELSE /\ cycleErr' = [cycleErr EXCEPT ![r] = TRUE]
            /\ pc' = [pc EXCEPT ![r] = "Release"]
            /\ UNCHANGED <<snap, todo, cycleNow>>
  /\ UNCHANGED <<storeVars, now, pipe, cur, invoked, res, lease, owed, lastFailed,
                 lockHist, crashes, db0, hist>>
  /\ UNCHANGED sideVars

\* Evaluating one reference of the snapshot: GetExpiry, and deleteImage when the
\* expiry is not in the future.  A malformed reference fails before any request.
Evaluate(r) ==
  /\ pc[r] = "Evaluating"
  /\ \E image \in todo[r] :
       LET x == GetExpiry(db, image)
       IN /\ todo' = [todo EXCEPT ![r] = @ \ {image}]
          /\ IF ~x.ok \/ cycleNow[r] < x.v
             THEN UNCHANGED <<pc, cur, invoked, res, lastFailed>>
             ELSE /\ invoked' = [invoked EXCEPT ![r] = @ \cup {image}]
                  /\ IF WellFormed(image)
                     THEN /\ cur' = [cur EXCEPT ![r] = image]
                          /\ pc' = [pc EXCEPT ![r] = "Head"]
                          /\ UNCHANGED <<res, lastFailed>>
                     ELSE /\ res' = [res EXCEPT ![r][image] = "failed"]
                          /\ lastFailed' = lastFailed \cup {image}
                          /\ UNCHANGED <<pc, cur>>
  /\ UNCHANGED <<storeVars, now, pipe, snap, cycleNow, cycleErr, lease, owed,
                 lockHist, crashes, db0, hist>>
  /\ UNCHANGED sideVars

\* deleteImage resolves the digest: 404 means the image is already gone, and only
\* the tracking data is cleaned up.
HeadManifest(r) ==
  /\ pc[r] = "Head"
  /\ \E status \in HeadStatuses :
       /\ status = 200 => registry[cur[r]] # Gone
       /\ status = 404 => registry[cur[r]] \in {Unknown, Gone}
       /\ CASE status = 200 ->
                 /\ pc' = [pc EXCEPT ![r] = "Delete"]
                 /\ UNCHANGED <<pipe, res, lastFailed>>
            [] status = 404 ->
                 /\ pipe' = [pipe EXCEPT ![r] = RemoveImage(cur[r])]
                 /\ res' = [res EXCEPT ![r][cur[r]] = "gone"]
                 /\ lastFailed' = lastFailed \ {cur[r]}
                 /\ pc' = [pc EXCEPT ![r] = "Removing"]
            [] OTHER ->
                 /\ res' = [res EXCEPT ![r][cur[r]] = "failed"]
                 /\ lastFailed' = lastFailed \cup {cur[r]}
                 /\ pc' = [pc EXCEPT ![r] = "Evaluating"]
                 /\ UNCHANGED pipe
  /\ UNCHANGED <<storeVars, now, snap, todo, cycleNow, cur, cycleErr, invoked, lease,
                 owed, lockHist, crashes, db0, hist>>
  /\ UNCHANGED sideVars

\* DELETE /v2/<repo>/manifests/<digest> accepted: the manifest is gone, and with it
\* what every tag of the repository that pointed to it resolved to.
DeleteByDigest(g, image) ==
  [j \in DOMAIN g |->
     IF g[image] \in Digests /\ g[j] = g[image] /\ Head(j) = Head(image)
     THEN Gone ELSE g[j]]

\* deleteImage deletes the manifest by digest: 200, 202 and 404 are accepted.
DeleteManifest(r) ==
  /\ pc[r] = "Delete"
  /\ \E status \in DeleteStatuses :
       /\ status \in {200, 202} => registry[cur[r]] # Gone
       /\ status = 404 => registry[cur[r]] \in {Unknown, Gone}
       /\ registry' = IF status \in {200, 202}
                      THEN DeleteByDigest(registry, cur[r]) ELSE registry
       /\ IF status \in {200, 202, 404}
          THEN /\ pipe' = [pipe EXCEPT ![r] = RemoveImage(cur[r])]
               /\ res' = [res EXCEPT ![r][cur[r]] = IF status = 404 THEN "gone" ELSE "deleted"]
               /\ lastFailed' = lastFailed \ {cur[r]}
               /\ pc' = [pc EXCEPT ![r] = "Removing"]
          ELSE /\ res' = [res EXCEPT ![r][cur[r]] = "failed"]
               /\ lastFailed' = lastFailed \cup {cur[r]}
               /\ pc' = [pc EXCEPT ![r] = "Evaluating"]
               /\ UNCHANGED pipe
  /\ UNCHANGED <<storeVars, now, snap, todo, cycleNow, cur, cycleErr, invoked, lease,
                 owed, lockHist, crashes, db0, hist>>
  /\ UNCHANGED callerVars

\* RemoveImage has returned: on to the next reference.
Removed(r) ==
  /\ pc[r] = "Removing"
  /\ pipe[r] = <<>>
  /\ pc' = [pc EXCEPT ![r] = "Evaluating"]
  /\ UNCHANGED <<storeVars, now, pipe, snap, todo, cycleNow, cur, cycleErr, invoked,
                 res, lease, owed, lastFailed, lockHist, crashes, db0, hist>>
  /\ UNCHANGED sideVars

\* Every reference of the snapshot has been evaluated.
Evaluated(r) ==
  /\ pc[r] = "Evaluating"
  /\ todo[r] = {}
  /\ pc' = [pc EXCEPT ![r] = "Release"]
  /\ UNCHANGED <<storeVars, now, pipe, snap, todo, cycleNow, cur, cycleErr, invoked,
                 res, lease, owed, lastFailed, lockHist, crashes, db0, hist>>
  /\ UNCHANGED sideVars

\* Done: the lock is released, whoever holds it, and ReapOnce returns: what the
\* cycle had in memory is gone.
Release(r) ==
  /\ pc[r] = "Release"
  /\ db' = ReleaseReaperLock(db)
  /\ lockTTL' = IF db'[reaperLockKey].t = "none" THEN 0 ELSE lockTTL
  /\ grants' = IF db'[reaperLockKey].t = "none" THEN 0 ELSE grants
  /\ holder' = IF db'[reaperLockKey].t = "none" THEN "none" ELSE holder
  /\ pc' = [pc EXCEPT ![r] = "Idle"]
  /\ snap' = [snap EXCEPT ![r] = {}]
  /\ todo' = [todo EXCEPT ![r] = {}]
  /\ cycleNow' = [cycleNow EXCEPT ![r] = 0]
  /\ cur' = [cur EXCEPT ![r] = NoRef]
  /\ cycleErr' = [cycleErr EXCEPT ![r] = FALSE]
  /\ invoked' = [invoked EXCEPT ![r] = {}]
  /\ res' = [res EXCEPT ![r] = NoRes]
  /\ lease' = [lease EXCEPT ![r] = 0]
  /\ owed' = [owed EXCEPT ![r] = {}]
  /\ UNCHANGED <<now, pipe, lastFailed, orphaned, crashes, db0, hist>>
  /\ UNCHANGED sideVars

\* The process crashes, or the cycle is cancelled, after it acquired the lock:
\* nothing is released, and what the cycle had in memory is lost.
Crash(r) ==
  /\ pc[r] \in InCycle
  /\ crashes < MaxCrashes
  /\ crashes' = crashes + 1
  /\ pc' = [pc EXCEPT ![r] = "Idle"]
  /\ orphaned' = (orphaned \/ (holder = r /\ db[reaperLockKey].t # "none"))
  /\ snap' = [snap EXCEPT ![r] = {}]
  /\ todo' = [todo EXCEPT ![r] = {}]
  /\ cycleNow' = [cycleNow EXCEPT ![r] = 0]
  /\ cur' = [cur EXCEPT ![r] = NoRef]
  /\ cycleErr' = [cycleErr EXCEPT ![r] = FALSE]
  /\ invoked' = [invoked EXCEPT ![r] = {}]
  /\ res' = [res EXCEPT ![r] = NoRes]
  /\ lease' = [lease EXCEPT ![r] = 0]
  /\ owed' = [owed EXCEPT ![r] = {}]
  /\ UNCHANGED <<storeVars, now, pipe, lastFailed, grants, holder, db0, hist>>
  /\ UNCHANGED sideVars

\* One step of replica r's reap cycle.
Reap(r) ==
  \/ Acquire(r)
  \/ Scan(r)
  \/ Evaluate(r)
  \/ HeadManifest(r)
  \/ DeleteManifest(r)
  \/ ExecCmd(r)
  \/ Removed(r)
  \/ Evaluated(r)
  \/ Release(r)

\* ------------------------------------------------------------ specifications
EmptyInit ==
  /\ db = EmptyDb
  /\ db0 = EmptyDb
  /\ now = 0
  /\ Fresh

\* One caller, one call at a time.
SeqRefs == {RefA, RefB}
SeqTimes == {1, SubMs, MaxTime * SubMs + 1}

SeqNext ==
  \/ \E i \in SeqRefs, e \in SeqTimes : SeqTrack(i, e)
  \/ \E i \in SeqRefs : SeqRemove(i)
  \/ Tick

SeqSpec == EmptyInit /\ [][SeqNext]_vars

\* Concurrent clients of the store, their pipelines interleaved by the server.
StoreRefs == {RefA, RefB}
StoreTimes == {1, MaxTime * SubMs}

StoreNext ==
  \/ \E c \in Clients, i \in StoreRefs, e \in StoreTimes : ClientTrack(c, i, e)
  \/ \E c \in Clients, i \in StoreRefs : ClientRemove(c, i)
  \/ \E c \in Clients : ExecCmd(c)

StoreSpec == EmptyInit /\ [][StoreNext]_vars

\* A fixed clock and no writer but the reap cycles.  The store starts with any
\* tracked images: each reference is untracked, or tracked with any expiry.
QuietStores ==
  {d \in [Keys -> {None} \cup {SetVal(m) : m \in (SUBSET Refs) \ {{}}}
                  \cup {HashVal(<<"0">>, FormatInt(e)) : e \in 0..MaxTime}] :
     /\ d[imagesKey].t \in {"none", "set"}
     /\ d[reaperLockKey] = None
     /\ d[initializedKey] = None
     /\ \A i \in Refs : d[i].t \in {"none", "hash"}
     /\ \A i \in Refs : (i \in SMembers(d, imagesKey)) <=> (d[i].t = "hash")}

\* The reading of the fixed clock: expiries 0..MaxTime lie before, at and after it.
QuietNow == 1

QuietInit ==
  /\ db \in QuietStores
  /\ db0 = db
  /\ now = QuietNow
  /\ Fresh

QuietNext == \E r \in Replicas : Reap(r)

QuietSpec == QuietInit /\ [][QuietNext]_vars

\* The lock protocol: the replicas run reap cycles against a store that tracks one
\* image whose expiry has passed, leases run down, and cycles crash.
SeededDb ==
  [EmptyDb EXCEPT ![imagesKey] = SetVal({RefA}),
                  ![RefA] = HashVal(FormatInt(0), FormatInt(0))]

Init == db = SeededDb /\ db0 = SeededDb /\ now = MaxTime /\ Fresh

Next ==
  \/ \E r \in Replicas : Reap(r)
  \/ \E r \in Replicas : Crash(r)
  \/ Tick

Spec == Init /\ [][Next]_vars

\* The steps in which the store and the registry answer well.
Listed(r) == Scan(r) /\ pc'[r] = "Evaluating"
Resolved(r) == HeadManifest(r) /\ pc'[r] # "Evaluating"
Accepted(r) == DeleteManifest(r) /\ pc'[r] = "Removing"

\* The loop of replica r keeps running, and a store or registry that is asked again
\* and again answers well in the end.
Perseveres(r) ==
  /\ WF_vars(Reap(r))
  /\ SF_vars(Listed(r))
  /\ SF_vars(Resolved(r))
  /\ SF_vars(Accepted(r))

FairSpec == Spec /\ WF_vars(Tick) /\ \A r \in Replicas : Perseveres(r)

\* Pushes: one replica runs reap cycles and may crash while a client tracks images,
\* some expired already and some not.
Reaper == "r1"
Writers == {"c1"}
PushRefs == {RefA}
PushTimes == {0, (MaxTime + 1) * SubMs}

PushNext ==
  \/ Reap(Reaper)
  \/ Crash(Reaper)
  \/ \E c \in Writers, i \in PushRefs, e \in PushTimes : ClientTrack(c, i, e)
  \/ \E c \in Writers : ExecCmd(c)
  \/ Tick

PushInit == db = EmptyDb /\ db0 = EmptyDb /\ now = MaxTime /\ Fresh

PushSpec == PushInit /\ [][PushNext]_vars

FairPushSpec ==
  /\ PushSpec
  /\ WF_vars(Tick)
  /\ \A c \in Writers : WF_vars(ExecCmd(c))
  /\ Perseveres(Reaper)

\* Tags and durations through ParseTTL and ClampTTL, under every configuration,
\* those that Validate rejects included.
TagChars == {"0", "1", "9", "w", "d", "h", "m", "s", "a"}
MaxTagLen == 3
ShortTags == UNION {[1..n -> TagChars] : n \in 0..MaxTagLen}

TestTags ==
  { <<"5", "m">>, <<"1", "h">>, <<"2", "4", "h">>,
    <<"1", "h", "3", "0", "m">>, <<"2", "d", "1", "2", "h">>,
    <<"1", "w", "3", "d", "1", "2", "h">>, <<"1", "d", "1", "2", "h", "3", "0", "m">>,
    <<"3", "0", "m", "1", "h">>,
    <<"l", "a", "t", "e", "s", "t">>, <<"v", "1", ".", "0", ".", "0">>,
    <<"a", "b", "c">>, <<"s", "h", "a", "-", "a", "b", "c", "1", "2", "3">>,
    <<"i", "n", "i", "t", "i", "a", "l", "i", "z", "e", "d">> }

Tags == ShortTags \cup TestTags

ConfigTTLs == {Minute, Hour, 24 * Hour}
Durations == {-2 * Hour, -1, 0, Second, Minute, Hour, Hour + Second, 6 * Hour, 48 * Hour}

TagCases ==
  [step : {"tag"}, tag : Tags, d : {0}, defaultTTL : ConfigTTLs, maxTTL : ConfigTTLs,
   out : {0}, twice : {0}]
  \cup [step : {"duration"}, tag : {<<>>}, d : Durations, defaultTTL : ConfigTTLs,
        maxTTL : ConfigTTLs, out : {0}, twice : {0}]

TtlInit ==
  /\ db = EmptyDb /\ db0 = EmptyDb /\ now = 0
  /\ FreshCycles
  /\ rec = NoRec
  /\ hook = NoHook
  /\ cli = NoCli
  /\ registry = AnyRegistry
  /\ listing = NoListing
  /\ tagCase \in TagCases

TtlFrame == UNCHANGED <<storeVars, now, pipe, cycleVars, lastFailed, lockHist, crashes,
                        db0, hist, rec, hook, cli, registry, listing>>

\* d := ParseTTL(tag)
Parse ==
  /\ tagCase.step = "tag"
  /\ tagCase' = [tagCase EXCEPT !.step = "parsed", !.d = ParseTTL(tagCase.tag)]
  /\ TtlFrame

\* out := ClampTTL(d, defaultTTL, maxTTL)
Clamp ==
  /\ tagCase.step \in {"parsed", "duration"}
  /\ tagCase' = [tagCase EXCEPT
                   !.step = IF @ = "parsed" THEN "clamped" ELSE "limited",
                   !.out = ClampTTL(tagCase.d, tagCase.defaultTTL, tagCase.maxTTL)]
  /\ TtlFrame

\* twice := ClampTTL(out, defaultTTL, maxTTL)
ClampAgain ==
  /\ tagCase.step \in {"clamped", "limited"}
  /\ tagCase' = [tagCase EXCEPT
                   !.step = "twice",
                   !.twice = ClampTTL(tagCase.out, tagCase.defaultTTL, tagCase.maxTTL)]
  /\ TtlFrame

TtlNext == Parse \/ Clamp \/ ClampAgain

TtlSpec == TtlInit /\ [][TtlNext]_vars

\* ------------------------------------------------------------ recovery
\* The registry's catalog: repositories and their tags.  The catalog does not change.
Catalog ==
  << [repo |-> "myapp", tags |-> <<"5m", "1h">>],
     [repo |-> "ephemeron", tags |-> <<"initialized">>] >>

\* The characters of a tag.
Spell(tag) ==
  CASE tag = "5m" -> <<"5", "m">>
    [] tag = "1h" -> <<"1", "h">>
    [] tag = "initialized" -> <<"i", "n", "i", "t", "i", "a", "l", "i", "z", "e", "d">>

\* fmt.Sprintf("%s:%s", repo, tag)
ImageWithTag(repo, tag) == <<repo, Colon, tag>>

RefInit == ImageWithTag("ephemeron", "initialized")
CatalogRefs ==
  UNION {{ImageWithTag(Catalog[n].repo, Catalog[n].tags[k]) :
            k \in 1..Len(Catalog[n].tags)} : n \in 1..Len(Catalog)}

\* The configuration's defaults.
DefaultTTL == Hour
MaxTTL == 24 * Hour

\* time.Now(): the instant of the clock's reading, in SubMs units.
TimeNow == now * SubMs
\* A mutant of Add: the duration is counted back from the instant.
AddBackwards(t, d) == d * 1000 * SubMs - t
\* t.Add(d): a second is a thousand milliseconds.
Add(t, d) == t + d * 1000 * SubMs

\* ttl := ClampTTL(ParseTTL(tag), defaultTTL, maxTTL); expiresAt := time.Now().Add(ttl)
ExpiresAt(tag) == Add(TimeNow, ClampTTL(ParseTTL(Spell(tag)), DefaultTTL, MaxTTL))

\* Invocations of the runner a behaviour may hold.
MaxRuns == 2

RecFrame == UNCHANGED <<lockTTL, now, cycleVars, lastFailed, lockHist, crashes, db0,
                        hist, tagCase, hook, cli, registry, listing>>

Invoked(cmd, at) ==
  [rec EXCEPT !.pc = at, !.cmd = cmd, !.started = @ + 1, !.repos = <<>>,
              !.tags = <<>>, !.initialized = FALSE, !.calls = NoCalls,
              !.err = FALSE, !.before = db, !.checkErr = FALSE,
              !.reposErr = FALSE, !.prevReposErr = rec.reposErr,
              !.returned = FALSE, !.listed = {}, !.passed = {}]

\* A mutant of the recover command: it marks the store without running Run.
RecoverCmdMarks ==
  /\ rec.pc = "Off"
  /\ rec.started < MaxRuns
  /\ rec' = Invoked("recover", "Mark")
  /\ UNCHANGED <<db, pipe>>
  /\ RecFrame

\* The recover command calls Run.
RecoverCmd ==
  /\ rec.pc = "Off"
  /\ rec.started < MaxRuns
  /\ rec' = Invoked("recover", "Repos")
  /\ UNCHANGED <<db, pipe>>
  /\ RecFrame

\* The serve command calls RunIfNeeded.
ServeCmd ==
  /\ rec.pc = "Off"
  /\ rec.started < MaxRuns
  /\ rec' = Invoked("serve", "Check")
  /\ UNCHANGED <<db, pipe>>
  /\ RecFrame

\* A mutant of RunIfNeeded: it runs recovery whatever IsInitialized answered.
RunIfNeededAlways ==
  /\ rec.pc = "Check"
  /\ \E ok \in BOOLEAN :
       rec' = IF ~ok THEN [rec EXCEPT !.pc = "Off", !.err = TRUE, !.checkErr = TRUE]
              ELSE [rec EXCEPT !.initialized = IsInitialized(db), !.pc = "Repos"]
  /\ UNCHANGED <<db, pipe>>
  /\ RecFrame

\* A mutant of RunIfNeeded: a failed check is taken for an uninitialized store.
RunIfNeededOnCheckError ==
  /\ rec.pc = "Check"
  /\ \E ok \in BOOLEAN :
       rec' = IF ~ok THEN [rec EXCEPT !.pc = "Repos", !.checkErr = TRUE]
              ELSE [rec EXCEPT !.initialized = IsInitialized(db),
                               !.pc = IF IsInitialized(db) THEN "Off" ELSE "Repos"]
  /\ UNCHANGED <<db, pipe>>
  /\ RecFrame

\* RunIfNeeded up to its call of Run: an error of IsInitialized is returned; an
\* initialized store ends the call.
RunIfNeeded ==
  /\ rec.pc = "Check"
  /\ \E ok \in BOOLEAN :
       rec' = IF ~ok THEN [rec EXCEPT !.pc = "Off", !.err = TRUE, !.checkErr = TRUE]
              ELSE [rec EXCEPT !.initialized = IsInitialized(db),
                               !.pc = IF IsInitialized(db) THEN "Off" ELSE "Repos"]
  /\ UNCHANGED <<db, pipe>>
  /\ RecFrame

\* A mutant of ListRepositories: a failed listing is taken for an empty catalog.
ListRepositoriesGoesOn ==
  /\ rec.pc = "Repos"
  /\ \E ok \in BOOLEAN :
       rec' = IF ok
              THEN [rec EXCEPT !.pc = "Tags", !.calls.catalog = @ + 1,
                               !.repos = [n \in 1..Len(Catalog) |-> n]]
              ELSE [rec EXCEPT !.pc = "Tags", !.calls.catalog = @ + 1,
                               !.failed = TRUE, !.reposErr = TRUE]
  /\ UNCHANGED <<db, pipe>>
  /\ RecFrame

\* Run: ListRepositories; its error ends Run, and the command.
ListRepositories ==
  /\ rec.pc = "Repos"
  /\ \E ok \in BOOLEAN :
       rec' = IF ok
              THEN [rec EXCEPT !.pc = "Tags", !.calls.catalog = @ + 1,
                               !.repos = [n \in 1..Len(Catalog) |-> n]]
              ELSE [rec EXCEPT !.pc = "Off", !.calls.catalog = @ + 1,
                               !.err = TRUE, !.failed = TRUE, !.reposErr = TRUE]
  /\ UNCHANGED <<db, pipe>>
  /\ RecFrame

\* A mutant of ListTags: its error ends Run.
ListTagsAborts ==
  /\ rec.pc = "Tags"
  /\ rec.repos # <<>>
  /\ \E ok \in BOOLEAN :
       rec' = IF ok /\ Catalog[Head(rec.repos)].tags # <<>>
              THEN [rec EXCEPT !.pc = "Track", !.calls.catalog = @ + 1,
                               !.tags = Catalog[Head(rec.repos)].tags,
                               !.listed = @ \cup {Head(rec.repos)}]
              ELSE [rec EXCEPT !.calls.catalog = @ + 1, !.pc = "Off", !.err = TRUE,
                               !.failed = @ \/ ~ok]
  /\ UNCHANGED <<db, pipe>>
  /\ RecFrame

\* Run: ListTags of the next repository; on its error the repository is skipped.
ListTags ==
  /\ rec.pc = "Tags"
  /\ rec.repos # <<>>
  /\ \E ok \in BOOLEAN :
       rec' = IF ok /\ Catalog[Head(rec.repos)].tags # <<>>
              THEN [rec EXCEPT !.pc = "Track", !.calls.catalog = @ + 1,
                               !.tags = Catalog[Head(rec.repos)].tags,
                               !.listed = @ \cup {Head(rec.repos)}]
              ELSE [rec EXCEPT !.calls.catalog = @ + 1, !.repos = Tail(@),
                               !.failed = @ \/ ~ok]
  /\ UNCHANGED <<db, pipe>>
  /\ RecFrame

\* The runner after the present tag: the next tag, or the next repository.
AfterTag(r) ==
  IF Tail(r.tags) = <<>>
  THEN [r EXCEPT !.pc = "Tags", !.tags = <<>>, !.repos = Tail(@)]
  ELSE [r EXCEPT !.pc = "Track", !.tags = Tail(@)]

\* Run: TrackImage of the next tag is called; when the call fails before anything
\* is sent, the tag is skipped.
TrackTag ==
  /\ rec.pc = "Track"
  /\ pipe["rec"] = <<>>
  /\ LET repo == Catalog[Head(rec.repos)].repo
         tag == Head(rec.tags)
         called == [rec EXCEPT !.calls.track = @ + 1,
                               !.passed = @ \cup {[ref |-> ImageWithTag(repo, tag),
                                                   e |-> ExpiresAt(tag),
                                                   at |-> now]}]
     IN \E ok \in BOOLEAN :
          IF ok
          THEN /\ pipe' = [pipe EXCEPT !["rec"] =
                             TrackImage(ImageWithTag(repo, tag), ExpiresAt(tag), now)]
               /\ rec' = [called EXCEPT !.pc = "Wait"]
          ELSE /\ pipe' = pipe
               /\ rec' = AfterTag([called EXCEPT !.failed = TRUE])
  /\ UNCHANGED db
  /\ RecFrame

\* Run: TrackImage returns when the server has executed the pipeline.
TrackReturns ==
  /\ rec.pc = "Wait"
  /\ pipe["rec"] = <<>>
  /\ rec' = AfterTag(rec)
  /\ UNCHANGED <<db, pipe>>
  /\ RecFrame

\* Run returns nil when every repository has been scanned or skipped.
RunReturns ==
  /\ rec.pc = "Tags"
  /\ rec.repos = <<>>
  /\ rec' = [rec EXCEPT !.pc = "Mark", !.runs = @ + 1, !.returned = TRUE,
                        !.first = IF rec.runs = 0 THEN db ELSE @]
  /\ UNCHANGED <<db, pipe>>
  /\ RecFrame

\* After Run, both commands call SetInitialized and return its error.
Mark ==
  /\ rec.pc = "Mark"
  /\ \E ok \in BOOLEAN :
       /\ db' = IF ok THEN SetInitialized(db) ELSE db
       /\ rec' = [rec EXCEPT !.pc = "Off", !.calls.mark = @ + 1, !.err = ~ok]
  /\ UNCHANGED pipe
  /\ RecFrame

Recover ==
  \/ RecoverCmd
  \/ ServeCmd
  \/ RunIfNeeded
  \/ ListRepositories
  \/ ListTags
  \/ TrackTag
  \/ \E p \in Runners : ExecCmd(p)
  \/ TrackReturns
  \/ RunReturns
  \/ Mark

\* The runner alone: the store starts empty or marked, and nothing else writes.
RecoverInit ==
  /\ db \in {EmptyDb, SetInitialized(EmptyDb)}
  /\ db0 = db
  /\ now = 0
  /\ Fresh

RecoverNext == Recover \/ Tick

RecoverSpec == RecoverInit /\ [][RecoverNext]_vars

\* handlePush: the webhook handler tracks a pushed tag.
handlePush(c, repo, tag) ==
  /\ pipe[c] = <<>>
  /\ pipe' = [pipe EXCEPT ![c] =
                TrackImage(ImageWithTag(repo, tag), ExpiresAt(tag), now)]
  /\ UNCHANGED <<storeVars, now, cycleVars, lastFailed, lockHist, crashes, db0, hist>>
  /\ UNCHANGED sideVars

\* The service at start: recovery runs while the webhook handler takes pushes of a
\* tag that is in the catalog.
Pushers == {"c1"}

BootNext ==
  \/ Recover
  \/ \E c \in Pushers : handlePush(c, "myapp", "5m")
  \/ \E c \in Pushers : ExecCmd(c)
  \/ Tick

\* The store is empty, as after its loss; the clock has one more reading to reach.
BootInit ==
  /\ db = EmptyDb
  /\ db0 = EmptyDb
  /\ now = MaxTime - 1
  /\ Fresh

BootSpec == BootInit /\ [][BootNext]_vars

\* ------------------------------------------------------------ webhook
\* The handler's token, and the Authorization headers a request may carry: the
\* right one, a wrong one and none.
hookToken == "test-token"
Authorizations == {<<"Token ", "test-token">>, <<"Token ", "wrong-token">>, <<>>}
Methods == {"POST", "GET"}

\* Events a body may hold, and bodies: what json.Decode makes of them (ok: FALSE
\* for a body that is not JSON).
HookEvents == [action : {"push", "pull"}, repo : {"", "myapp"}, tag : {"", "5m"}]
MaxEvents == 2
Bodies ==
  {[ok |-> FALSE, events |-> <<>>]}
  \cup {[ok |-> TRUE, events |-> e] :
          e \in UNION {[1..n -> HookEvents] : n \in 0..MaxEvents}}

\* A mutant of IsPush: the action of the event is not looked at.
IsPushAnyAction(event) == ~(event.repo = "" \/ event.tag = "")

\* The events ServeHTTP hands to handlePush.
IsPush(event) ==
  /\ ~(event.action # "push")
  /\ ~(event.repo = "" \/ event.tag = "")

HookFrame == UNCHANGED <<lockTTL, now, cycleVars, lastFailed, lockHist, crashes, db0,
                         hist, tagCase, rec, cli, registry, listing>>

\* ServeHTTP up to its loop: the method, the token and the body are checked.
ServeHTTP(method, auth, body) ==
  /\ hook.pc \in {"Idle", "Done"}
  /\ LET request == [NoHook EXCEPT !.method = method, !.auth = auth, !.body = body,
                                   !.before = ListImages(db)]
     IN hook' = IF method # "POST"
                THEN [request EXCEPT !.pc = "Done", !.status = 405]
                ELSE IF auth # <<"Token ", hookToken>>
                THEN [request EXCEPT !.pc = "Done", !.status = 401]
                ELSE IF ~body.ok
                THEN [request EXCEPT !.pc = "Done", !.status = 400]
                ELSE [request EXCEPT !.pc = "Events", !.events = body.events]
  /\ UNCHANGED <<db, pipe>>
  /\ HookFrame

\* The loop's next event: an event that is no push is passed over; for a push
\* handlePush calls TrackImage, and an error is logged.
HandleEvent(c) ==
  /\ hook.pc = "Events"
  /\ hook.events # <<>>
  /\ pipe[c] = <<>>
  /\ LET event == Head(hook.events)
         called == [hook EXCEPT !.tracks =
                      Append(@, [ref |-> ImageWithTag(event.repo, event.tag),
                                 e |-> ExpiresAt(event.tag),
                                 at |-> now])]
     IN IF ~IsPush(event)
        THEN /\ hook' = [hook EXCEPT !.events = Tail(@)]
             /\ pipe' = pipe
        ELSE \E ok \in BOOLEAN :
               IF ok
               THEN /\ pipe' = [pipe EXCEPT ![c] =
                                  TrackImage(ImageWithTag(event.repo, event.tag),
                                             ExpiresAt(event.tag), now)]
                    /\ hook' = [called EXCEPT !.pc = "Wait"]
               ELSE /\ pipe' = pipe
                    /\ hook' = [called EXCEPT !.errs = @ + 1, !.events = Tail(@)]
  /\ UNCHANGED db
  /\ HookFrame

\* handlePush returns when the server has executed the pipeline.
PushReturns(c) ==
  /\ hook.pc = "Wait"
  /\ pipe[c] = <<>>
  /\ hook' = [hook EXCEPT !.pc = "Events", !.events = Tail(@)]
  /\ UNCHANGED <<db, pipe>>
  /\ HookFrame

\* After the loop: w.WriteHeader(http.StatusOK).
Respond ==
  /\ hook.pc = "Events"
  /\ hook.events = <<>>
  /\ hook' = [hook EXCEPT !.pc = "Done", !.status = 200]
  /\ UNCHANGED <<db, pipe>>
  /\ HookFrame

\* The webhook handler alone, one request after another.
HookInit ==
  /\ db = EmptyDb
  /\ db0 = EmptyDb
  /\ now = 0
  /\ Fresh

HookNext ==
  \/ \E method \in Methods, auth \in Authorizations, body \in Bodies :
       ServeHTTP(method, auth, body)
  \/ \E c \in Pushers : HandleEvent(c)
  \/ \E c \in Pushers : ExecCmd(c)
  \/ \E c \in Pushers : PushReturns(c)
  \/ Respond
  \/ Tick

HookSpec == HookInit /\ [][HookNext]_vars

\* Every core operation on one store, one operation at a time and in any order: the
\* runner's commands, a client that tracks and removes the image
\* ephemeron:initialized, and one replica's reap cycles.  The clock stands at its
\* last reading, so that an expiry of 0 has passed.
CoreRefs == {RefInit}
CoreTimes == {0}

RunnerOff == rec.pc = "Off"
ReaperOff == pc[Reaper] \in {"Idle", "Skipped"}
ClientsOff == \A c \in Pushers : pipe[c] = <<>>

CoreNext ==
  \/ ReaperOff /\ ClientsOff /\ Recover
  \/ RunnerOff /\ ClientsOff /\ Reap(Reaper)
  \/ RunnerOff /\ ReaperOff /\
       \E c \in Pushers, i \in CoreRefs, e \in CoreTimes : ClientTrack(c, i, e)
  \/ RunnerOff /\ ReaperOff /\ \E c \in Pushers, i \in CoreRefs : ClientRemove(c, i)
  \/ \E c \in Pushers : ExecCmd(c)
  \/ Tick

CoreInit ==
  /\ db = EmptyDb
  /\ db0 = EmptyDb
  /\ now = MaxTime
  /\ Fresh

CoreSpec == CoreInit /\ [][CoreNext]_vars

\* Overlapping cycles: two replicas run reap cycles, leases run down, nothing else
\* writes.  The store tracks one image whose expiry has passed and one whose expiry
\* lies ahead.
OverlapDb ==
  [EmptyDb EXCEPT ![imagesKey] = SetVal({RefA, RefB}),
                  ![RefA] = HashVal(FormatInt(0), FormatInt(0)),
                  ![RefB] = HashVal(FormatInt(0), FormatInt(MaxTime + 1))]

OverlapInit == db = OverlapDb /\ db0 = OverlapDb /\ now = MaxTime /\ Fresh

OverlapNext ==
  \/ \E r \in Replicas : Reap(r)
  \/ Tick

OverlapSpec == OverlapInit /\ [][OverlapNext]_vars

\* ------------------------------------------------------------ command line
\* The environment: a variable is unset or empty (""), or has a value; a duration
\* variable is unset or does not parse (set is FALSE), or parses to d.
EnvTTLs == {0 - Hour, 0, Hour, 24 * Hour, 48 * Hour}
EnvDurations == {[set |-> FALSE, d |-> 0]} \cup [set : {TRUE}, d : EnvTTLs]
Environments ==
  [REDIS_URL : {"", "redis://redis:6379"}, REDISCLOUD_URL : {"", "redis://cloud:6379"},
   HOOK_TOKEN : {"", "test-token"}, REGISTRY_URL : {"", "http://registry:5000"},
   DEFAULT_TTL : EnvDurations, MAX_TTL : EnvDurations]

\* Any configuration, those the environment cannot produce included.
Configs ==
  [RedisURL : {"", "redis://redis:6379"}, HookToken : {"", "test-token"},
   RegistryURL : {"", "http://registry:5000"}, DefaultTTL : EnvTTLs, MaxTTL : EnvTTLs]

Commands == {"serve", "reap", "recover"}

envStr(v, fallback) == IF v # "" THEN v ELSE fallback
envDuration(v, fallback) == IF v.set THEN v.d ELSE fallback

newConfig(env) ==
  [RedisURL |-> envStr(env.REDIS_URL,
                       envStr(env.REDISCLOUD_URL, "redis://localhost:6379")),
   HookToken |-> envStr(env.HOOK_TOKEN, ""),
   RegistryURL |-> envStr(env.REGISTRY_URL, "http://localhost:5000"),
   DefaultTTL |-> envDuration(env.DEFAULT_TTL, DefaultTTL),
   MaxTTL |-> envDuration(env.MAX_TTL, MaxTTL)]

\* A mutant of Validate: DefaultTTL may exceed MaxTTL.
ValidateAnyOrder(c) ==
  IF c.RedisURL = "" THEN "REDIS_URL is required"
  ELSE IF c.HookToken = "" THEN "HOOK_TOKEN is required"
  ELSE IF c.RegistryURL = "" THEN "REGISTRY_URL is required"
  ELSE IF c.DefaultTTL <= 0 THEN "DEFAULT_TTL must be positive"
  ELSE IF c.MaxTTL <= 0 THEN "MAX_TTL must be positive"
  ELSE NoErr

\* Config.Validate: the error it returns, NoErr for nil.
Validate(c) ==
  IF c.RedisURL = "" THEN "REDIS_URL is required"
  ELSE IF c.HookToken = "" THEN "HOOK_TOKEN is required"
  ELSE IF c.RegistryURL = "" THEN "REGISTRY_URL is required"
  ELSE IF c.DefaultTTL <= 0 THEN "DEFAULT_TTL must be positive"
  ELSE IF c.MaxTTL <= 0 THEN "MAX_TTL must be positive"
  ELSE IF c.DefaultTTL > c.MaxTTL THEN "DEFAULT_TTL must not exceed MAX_TTL"
  ELSE NoErr

CliFrame == UNCHANGED <<storeVars, now, pipe, cycleVars, lastFailed, lockHist, crashes,
                        db0, hist, tagCase, rec, hook, registry, listing>>

\* Validate is called on a configuration.
CheckConfig(c) ==
  /\ cli.pc = "Idle"
  /\ cli' = [cli EXCEPT !.pc = "Checked", !.cfg = c, !.err = Validate(c)]
  /\ CliFrame

\* serve, reap and recover start alike: newConfig, Validate, whose error ends the
\* command, then redisclient.New, whose error ends the command.
Command(cmd, env) ==
  /\ cli.pc = "Idle"
  /\ LET cfg == newConfig(env)
         started == [cli EXCEPT !.cmd = cmd, !.cfg = cfg]
     IN IF Validate(cfg) # NoErr
        THEN cli' = [started EXCEPT !.pc = "Exit", !.err = Validate(cfg)]
        ELSE \E ok \in BOOLEAN :
               cli' = IF ok
                      THEN [started EXCEPT !.pc = "Connected", !.dialed = TRUE]
                      ELSE [started EXCEPT !.pc = "Exit", !.dialed = TRUE,
                                           !.err = "connecting to redis"]
  /\ CliFrame

\* The command's client closes (defer rdb.Close()) and the process ends.
Exit ==
  /\ cli.pc = "Connected"
  /\ cli' = [cli EXCEPT !.pc = "Exit"]
  /\ CliFrame

CliInit ==
  /\ db = EmptyDb
  /\ db0 = EmptyDb
  /\ now = 0
  /\ Fresh

CliNext ==
  \/ \E c \in Configs : CheckConfig(c)
  \/ \E cmd \in Commands, env \in Environments : Command(cmd, env)
  \/ Exit

CliSpec == CliInit /\ [][CliNext]_vars

\* Evaluation against a changing store: one replica runs reap cycles while a client
\* tracks and removes images whose expiry has passed or is the clock's reading.
EvalRefs == {RefA, RefB}
EvalTimes == {0, MaxTime * SubMs}

EvalNext ==
  \/ Reap(Reaper)
  \/ \E c \in Writers, i \in EvalRefs, e \in EvalTimes : ClientTrack(c, i, e)
  \/ \E c \in Writers, i \in EvalRefs : ClientRemove(c, i)
  \/ \E c \in Writers : ExecCmd(c)

EvalInit == db = EmptyDb /\ db0 = EmptyDb /\ now = MaxTime /\ Fresh

EvalSpec == EvalInit /\ [][EvalNext]_vars

\* Tags of one repository in a registry that is modelled: each tag of the store
\* resolves to a manifest, two tags to the same one or not.  One replica runs reap
\* cycles under a fixed clock and nothing else writes.
Registries ==
  {g \in [Refs \cup {initializedKey} -> Digests \cup {Gone}] :
     /\ g[RefA] \in Digests /\ g[RefB] \in Digests
     /\ g[RefBad] = Gone /\ g[initializedKey] = Gone}

SharedInit ==
  /\ db \in QuietStores
  /\ db0 = db
  /\ now = QuietNow
  /\ Unstarted
  /\ registry \in Registries

SharedNext == Reap(Reaper)

SharedSpec == SharedInit /\ [][SharedNext]_vars

\* Recovery beside the reaper: the store tracks a reference the catalog does not
\* hold and an expired image of the catalog; one replica runs reap cycles, and so
\* holds the lock at times, while one command of the runner runs.
StaleDb ==
  [EmptyDb EXCEPT ![imagesKey] = SetVal({RefBad, RefA}),
                  ![RefBad] = HashVal(FormatInt(0), FormatInt(0)),
                  ![RefA] = HashVal(FormatInt(0), FormatInt(0))]

BesideInit == db = StaleDb /\ db0 = StaleDb /\ now = 0 /\ Fresh

\* One invocation of the runner.
OneRun == rec.started = 0 \/ rec.pc # "Off"

BesideNext ==
  \/ OneRun /\ Recover
  \/ Reap(Reaper)

BesideSpec == BesideInit /\ [][BesideNext]_vars

\* ------------------------------------------------------------ registry client
\* The registry answers a listing page by page.  A page holds names; every page
\* but the last carries a Link header to the next, as a path or as a full URL.
MaxPages == 3
PageNames == {<<>>, <<"app1">>, <<"app2", "app3">>}
LinkForms == {"path", "url"}
Paginations ==
  UNION {[1..n -> [names : PageNames, form : LinkForms]] : n \in 1..MaxPages}

\* What goes wrong with one request: the transport fails (Do returns an error), the
\* body is no JSON, or the registry answers with an error status and a JSON error
\* document.
FaultKinds == {"transport", "garbage", "status"}
Faults == {NoFault} \cup [at : 1..MaxPages, kind : FaultKinds]

\* The response to the request for page k: the names the decoder finds in it and its
\* Link header.  An error document decodes to no names and carries no Link.
Response(pages, fault, k) ==
  IF fault.at = k
  THEN [sent |-> fault.kind # "transport", decodes |-> fault.kind = "status",
        names |-> <<>>, link |-> [form |-> "none", page |-> 0]]
  ELSE [sent |-> TRUE, decodes |-> TRUE, names |-> pages[k].names,
        link |-> IF k < Len(pages) THEN [form |-> pages[k].form, page |-> k + 1]
                 ELSE [form |-> "none", page |-> 0]]

\* A mutant of nextLink: a Link that holds a full URL is not followed.
nextLinkPathOnly(link) ==
  IF link.form = "path" THEN link.page ELSE 0

\* nextLink: no header, no next page; a path is put after the base URL, a full URL
\* is taken as it is.
nextLink(link) ==
  IF link.form = "none" THEN 0
  ELSE IF link.form = "path" THEN link.page
  ELSE link.page

ListFrame == UNCHANGED <<storeVars, now, pipe, cycleVars, lastFailed, lockHist, crashes,
                         db0, hist, tagCase, rec, hook, cli, registry>>

\* ListRepositories or ListTags is called: url is the first page's.
ListCall(op, pages, fault) ==
  /\ listing.pc = "Idle"
  /\ listing' = [NoListing EXCEPT !.pc = "Loop", !.op = op, !.pages = pages,
                                  !.fault = fault, !.url = 1]
  /\ ListFrame

\* One turn of the loop: the request, the decoding, append and nextLink; an error
\* of the request or of the decoder returns nil and the error.
FetchPage ==
  /\ listing.pc = "Loop"
  /\ listing.url # 0
  /\ LET resp == Response(listing.pages, listing.fault, listing.url)
         asked == [listing EXCEPT !.calls = @ + 1]
     IN listing' =
          IF ~resp.sent \/ ~resp.decodes
          THEN [asked EXCEPT !.pc = "Done", !.err = TRUE, !.result = <<>>]
          ELSE [asked EXCEPT !.all = @ \o resp.names, !.url = nextLink(resp.link)]
  /\ ListFrame

\* The loop ends on the empty url: return all, nil.
ListReturns ==
  /\ listing.pc = "Loop"
  /\ listing.url = 0
  /\ listing' = [listing EXCEPT !.pc = "Done", !.result = listing.all]
  /\ ListFrame

ListInit ==
  /\ db = EmptyDb
  /\ db0 = EmptyDb
  /\ now = 0
  /\ Fresh

ListNext ==
  \/ \E op \in {"catalog", "tags"}, pages \in Paginations, fault \in Faults :
       ListCall(op, pages, fault)
  \/ FetchPage
  \/ ListReturns

ListSpec == ListInit /\ [][ListNext]_vars

\* ------------------------------------------------------------ serve start-up
\* The environments serve is started in: the three strings set or unset, the
\* TTLs left to their defaults.
ServeEnvs ==
  {env \in Environments :
     /\ env.REDISCLOUD_URL = ""
     /\ ~env.DEFAULT_TTL.set
     /\ ~env.MAX_TTL.set}

\* A mutant of Ping: a failed ping is logged and start-up goes on.
PingLogsOnly ==
  /\ cli.pc = "Connected"
  /\ cli.cmd = "serve"
  /\ \E ok \in BOOLEAN :
       cli' = IF ok THEN [cli EXCEPT !.pc = "Pinged"]
              ELSE [cli EXCEPT !.pc = "Pinged", !.err = "redis ping failed"]
  /\ CliFrame

\* rdb.Ping: its error ends the command.
Ping ==
  /\ cli.pc = "Connected"
  /\ cli.cmd = "serve"
  /\ \E ok \in BOOLEAN :
       cli' = IF ok THEN [cli EXCEPT !.pc = "Pinged"]
              ELSE [cli EXCEPT !.pc = "Exit", !.err = "redis ping failed"]
  /\ CliFrame

\* rec.RunIfNeeded is called, once, after the ping.
AutoRecover ==
  /\ cli.pc = "Pinged"
  /\ rec.started = 0
  /\ ServeCmd

\* RunIfNeeded has returned; its error is logged, not returned.  go r.RunLoop
\* starts the reap loop.
GoRunLoop ==
  /\ cli.pc = "Pinged"
  /\ rec.started > 0
  /\ rec.pc = "Off"
  /\ cli' = [cli EXCEPT !.pc = "Looping"]
  /\ CliFrame

\* The routes are set up, the webhook handler among them, and ListenAndServe is
\* called.
ListenAndServe ==
  /\ cli.pc = "Looping"
  /\ cli' = [cli EXCEPT !.pc = "Serving"]
  /\ CliFrame

\* The reap loop runs its cycles.
RunLoop ==
  /\ cli.pc \in {"Looping", "Serving"}
  /\ Reap(Reaper)

\* The webhook endpoint takes a push.
Endpoint ==
  /\ cli.pc = "Serving"
  /\ \E c \in Pushers : handlePush(c, "myapp", "5m")

\* The store at start: marked or not, tracking two images whose expiry has passed.
ServeInit ==
  /\ db \in {StaleDb, SetInitialized(StaleDb)}
  /\ db0 = db
  /\ now = 0
  /\ Fresh

ServeNext ==
  \/ \E env \in ServeEnvs : Command("serve", env)
  \/ Ping
  \/ AutoRecover
  \/ RunIfNeeded
  \/ ListRepositories
  \/ ListTags
  \/ TrackTag
  \/ \E p \in Runners : ExecCmd(p)
  \/ TrackReturns
  \/ RunReturns
  \/ Mark
  \/ GoRunLoop
  \/ ListenAndServe
  \/ RunLoop
  \/ Endpoint
  \/ \E c \in Pushers : ExecCmd(c)

ServeSpec == ServeInit /\ [][ServeNext]_vars

\* ------------------------------------------------------------ claims
Quiescent == \A p \in Procs : pipe[p] = <<>>

HasRecord(d, i) == d[i].t # "none"

\* The expiry a record holds, read from the stored string.
ExpiresOf(d, i) == ParseInt(d[i].expires).v

Tracked(d, i) == i \in SMembers(d, imagesKey) /\ d[i].t = "hash"

\* The cycle's work is over and ReapOnce is about to return.
Ended(r) == pc[r] = "Release"

\* C1: with a fixed clock and no other writer, an image whose expiry is later than
\* the clock is never handed to deleteImage, and it stays in the tracking set with
\* the expiry it had.
C1_FutureKept ==
  \A i \in Refs :
    (Tracked(db0, i) /\ ExpiresOf(db0, i) > now)
    => /\ \A r \in Replicas : i \notin invoked[r]
       /\ Tracked(db, i)
       /\ db[i].expires = db0[i].expires

C1_Witness ==
  /\ Ended("r1")
  /\ Tracked(db0, RefB) /\ ExpiresOf(db0, RefB) > now
  /\ Tracked(db0, RefA) /\ ExpiresOf(db0, RefA) < now
  /\ RefA \in invoked["r1"] /\ res["r1"][RefA] = "deleted"
  /\ ~Tracked(db, RefA)

\* C2: a cycle that acquired the lock and listed the images calls deleteImage for
\* every image of the snapshot whose expiry is earlier than the clock, whatever
\* happened to the images before it; a failed image does not end the cycle and is
\* no error of the cycle.
C2_AllExpiredAttempted ==
  \A r \in Replicas :
    /\ (Ended(r) /\ ~cycleErr[r])
       => /\ todo[r] = {}
          /\ \A i \in snap[r] :
               (Tracked(db0, i) /\ ExpiresOf(db0, i) < cycleNow[r]) => i \in invoked[r]
    /\ (\E i \in Refs : res[r][i] = "failed") => ~cycleErr[r]

C2_Witness ==
  /\ Ended("r1") /\ ~cycleErr["r1"]
  /\ snap["r1"] = Refs
  /\ \A i \in Refs : ExpiresOf(db0, i) < cycleNow["r1"]
  /\ res["r1"][RefBad] = "failed"
  /\ res["r1"][RefA] = "failed"
  /\ res["r1"][RefB] = "deleted"

\* C3: when the registry answers "not found" for an expired image, the image leaves
\* the tracking set, its record is deleted, and the cycle reports no error.
C3_NotFoundAccepted ==
  \A r \in Replicas : \A i \in Refs :
    res[r][i] = "gone"
    => /\ ~cycleErr[r]
       /\ i \notin lastFailed
       /\ (pc[r] = "Removing" /\ cur[r] = i)
          \/ (i \notin ListImages(db) /\ ~HasRecord(db, i))

C3_Witness ==
  /\ Ended("r1") /\ ~cycleErr["r1"]
  /\ Tracked(db0, RefA)
  /\ res["r1"][RefA] = "gone"
  /\ RefA \notin ListImages(db) /\ ~HasRecord(db, RefA)

LockHeld == db[reaperLockKey].t # "none"

AcquiredBy(r) == pc[r] \notin InCycle /\ pc'[r] = "Scanning"

RefusedTo(r) == pc[r] = "Idle" /\ pc'[r] = "Skipped"

\* C5: AcquireReaperLock returns true exactly when the lock is absent (never set,
\* released, or expired): of the callers racing for an absent lock one gets it, and
\* nobody gets it again until it is released or its lease is over.
C5_OneHolder ==
  /\ [](grants <= 1 /\ (LockHeld <=> grants = 1))
  /\ [][\A r \in Replicas : /\ AcquiredBy(r) => ~LockHeld
                            /\ RefusedTo(r) => LockHeld]_vars

C5_Witness ==
  /\ pc["r1"] = "Skipped"
  /\ holder = "r2" /\ pc["r2"] \in InCycle
  /\ lease["r2"] > 0 /\ crashes = 1

Active == {"Scanning", "Evaluating", "Head", "Delete", "Removing"}

\* C6: at most one replica is scanning or evaluating while the lease it acquired
\* has not expired.
C6_OneActiveLease ==
  Cardinality({r \in Replicas : pc[r] \in Active /\ lease[r] > 0}) <= 1

\* C7: a lock left behind by a crashed or cancelled cycle does not stay: a later
\* AcquireReaperLock succeeds.
C7_OrphanLockGoes == orphaned ~> ~orphaned

C7_Witness ==
  /\ orphaned /\ LockHeld /\ crashes = 1
  /\ \A r \in Replicas : pc[r] \notin InCycle

\* C8: a well-formed image that is tracked and expired is removed from the tracking
\* set in the end, unless it is tracked again; this holds of an image tracked while
\* a cycle was scanning too.
C8_ExpiredReaped ==
  \A i \in PushRefs :
    (Tracked(db, i) /\ WellFormed(i) /\ ExpiresOf(db, i) <= now)
    ~> (i \notin ListImages(db) \/ \E c \in Writers : pipe[c] # <<>>)

C8_Witness ==
  /\ pc[Reaper] \in Active /\ RefA \notin snap[Reaper]
  /\ Tracked(db, RefA) /\ ExpiresOf(db, RefA) <= now
  /\ \A c \in Writers : pipe[c] = <<>>

\* The tag was parsed: d is what ParseTTL returned for it.
Parsed == tagCase.step \in {"parsed", "clamped"}
Clamped == tagCase.step \in {"clamped", "limited"}
ValidConfig == 0 < tagCase.defaultTTL /\ tagCase.defaultTTL <= tagCase.maxTTL

\* The grammar of duration tags, said without the pattern: the tag ends in a unit,
\* holds digits and units only, every unit follows a digit, and the units come in
\* the order w, d, h, m, s, none twice.
InGrammar(tag) ==
  /\ tag # <<>>
  /\ UnitOf(tag[Len(tag)]) # 0
  /\ \A p \in 1..Len(tag) :
       \/ IsDigit(tag[p])
       \/ UnitOf(tag[p]) # 0 /\ p > 1 /\ IsDigit(tag[p - 1])
  /\ \A p, q \in 1..Len(tag) :
       (p < q /\ UnitOf(tag[p]) # 0 /\ UnitOf(tag[q]) # 0) => UnitOf(tag[p]) < UnitOf(tag[q])

\* The number written before position q.
NumberBefore(tag, q) ==
  LET p == CHOOSE p \in 1..q :
             /\ \A k \in p..(q - 1) : IsDigit(tag[k])
             /\ p = 1 \/ ~IsDigit(tag[p - 1])
  IN ParseNat(SubSeq(tag, p, q - 1), 0)

RECURSIVE SumUpTo(_, _)
SumUpTo(tag, q) ==
  IF q = 0 THEN 0
  ELSE SumUpTo(tag, q - 1)
       + (IF UnitOf(tag[q]) # 0 THEN NumberBefore(tag, q) * UnitFactor[UnitOf(tag[q])] ELSE 0)

\* weeks * 168h + days * 24h + hours * 1h + minutes * 1m + seconds * 1s
WrittenDuration(tag) == SumUpTo(tag, Len(tag))

\* C12: ParseTTL returns the duration the tag writes when the tag is in the grammar,
\* and -1 for every other tag.
C12_ParseIsSum ==
  Parsed => tagCase.d = (IF InGrammar(tagCase.tag) THEN WrittenDuration(tagCase.tag) ELSE -1)

C12_Witness ==
  /\ Parsed
  /\ tagCase.tag = <<"1", "w", "3", "d", "1", "2", "h">>
  /\ tagCase.d = 252 * Hour

\* C13: under a configuration with 0 < defaultTTL <= maxTTL, ClampTTL returns
\* defaultTTL for d <= 0 and the smaller of d and maxTTL otherwise, so that a tag
\* ParseTTL does not parse gets defaultTTL.
C13_ClampDefaultOrMin ==
  (Clamped /\ ValidConfig)
  => /\ tagCase.d <= 0 => tagCase.out = tagCase.defaultTTL
     /\ tagCase.d > 0 =>
          tagCase.out = (IF tagCase.d < tagCase.maxTTL THEN tagCase.d ELSE tagCase.maxTTL)
     /\ (tagCase.step = "clamped" /\ ~InGrammar(tagCase.tag))
          => tagCase.out = tagCase.defaultTTL

C13_Witness ==
  /\ tagCase.step = "clamped" /\ ValidConfig
  /\ tagCase.tag = <<"l", "a", "t", "e", "s", "t">>
  /\ tagCase.d = -1
  /\ tagCase.out = Hour /\ tagCase.maxTTL = 24 * Hour

\* C14: whatever the configuration, ClampTTL returns no more than maxTTL.
C14_ClampAtMostMax == Clamped => tagCase.out <= tagCase.maxTTL

\* C15: ClampTTL applied to its own result returns that result.
C15_ClampIdempotent == tagCase.step = "twice" => tagCase.twice = tagCase.out

\* C16: ParseTTL returns -1 or a duration greater than zero.
C16_ParsePositive == Parsed => (tagCase.d = -1 \/ tagCase.d > 0)

\* C9: after TrackImage(ref, e1) and then TrackImage(ref, e2), GetExpiry(ref) is e2
\* in epoch milliseconds, ref is listed exactly once, the count is what it was after
\* the first call, and every other key of the store is as the first call left it.
C9_TrackOverwrites ==
  LET h == hist.calls
  IN (Len(h) = 2 /\ h[1].op = "track" /\ h[2].op = "track" /\ h[1].ref = h[2].ref)
     => /\ GetExpiry(db, h[2].ref) = [ok |-> TRUE, v |-> UnixMilli(h[2].e)]
        /\ Cardinality({i \in ListImages(db) : i = h[2].ref}) = 1
        /\ ImageCount(db) = ImageCount(hist.mid)
        /\ \A k \in Keys \ {h[2].ref} : db[k] = hist.mid[k]

C9_Witness ==
  LET h == hist.calls
  IN /\ Len(h) = 2 /\ h[1].op = "track" /\ h[2].op = "track"
     /\ h[1].ref = RefA /\ h[2].ref = RefA
     /\ UnixMilli(h[1].e) # UnixMilli(h[2].e)
     /\ h[2].e % SubMs # 0
     /\ RefB \in ListImages(db)

\* C11: RemoveImage of a tracked image takes it out of the tracking set, deletes its
\* record and lowers the count by exactly one; RemoveImage of an image that is not
\* tracked changes nothing; either way every other image keeps its membership and
\* its record.
C11_RemoveOnlyThat ==
  LET h == hist.calls
      last == h[Len(h)]
  IN (Len(h) > 0 /\ last.op = "remove")
     => /\ last.ref \notin ListImages(db) /\ ~HasRecord(db, last.ref)
        /\ Tracked(hist.mid, last.ref) => ImageCount(db) = ImageCount(hist.mid) - 1
        /\ (last.ref \notin ListImages(hist.mid) /\ ~HasRecord(hist.mid, last.ref))
           => db = hist.mid
        /\ \A i \in Refs \ {last.ref} :
             /\ (i \in ListImages(db)) <=> (i \in ListImages(hist.mid))
             /\ db[i] = hist.mid[i]

C11_Witness ==
  LET h == hist.calls
  IN /\ Len(h) = 2 /\ h[2].op = "remove" /\ h[2].ref = RefA
     /\ Tracked(hist.mid, RefA) /\ Tracked(hist.mid, RefB)
     /\ Tracked(db, RefB) /\ ImageCount(db) = 1

\* C10: once every TrackImage and RemoveImage call has completed, an image is in
\* the tracking set if and only if its metadata record exists.
C10_MemberIffRecord ==
  Quiescent => \A i \in Refs : (i \in ListImages(db)) <=> HasRecord(db, i)


\* ------------------------------------------------------------ recovery claims
\* The tracking set and the stored expiries after the latest return of Run, against
\* those after its first return.
SameMembers == ListImages(db) = ListImages(rec.first)
ExpiriesNotEarlier ==
  \A i \in CatalogRefs :
    (rec.first[i].t = "hash" /\ db[i].t = "hash")
      => ExpiresOf(db, i) >= ExpiresOf(rec.first, i)

RecWrites(i) ==
  /\ pipe["rec"] # <<>>
  /\ Head(pipe["rec"]).op = "HSET"
  /\ Head(pipe["rec"]).key = i
  /\ pipe'["rec"] = Tail(pipe["rec"])

\* C18: a write of the recovery run never moves a stored expiresAt back: the expiry
\* a reference has after the write is not earlier than the one it had before it,
\* however the run is interleaved with pushes of the same reference.
C18_NeverEarlier ==
  [][\A i \in CatalogRefs :
       (RecWrites(i) /\ db[i].t = "hash" /\ db'[i].t = "hash")
         => ExpiresOf(db', i) >= ExpiresOf(db, i)]_vars

\* A recovery write lands on a record that a push wrote while the run was under way.
C18_Witness ==
  /\ pipe["rec"] # <<>>
  /\ Head(pipe["rec"]).op = "HSET"
  /\ Head(pipe["rec"]).key = RefA
  /\ db[RefA].t = "hash"
  /\ ExpiresOf(db, RefA) > ParseInt(Head(pipe["rec"]).a2).v

\* C19: when IsInitialized answered true, RunIfNeeded lists no repositories and no
\* tags, calls neither TrackImage nor SetInitialized, leaves the tracking set as it
\* was and returns no error.
C19_InitializedNoOp ==
  (rec.cmd = "serve" /\ rec.initialized)
    => /\ rec.calls = NoCalls
       /\ ~rec.err
       /\ ListImages(db) = ListImages(rec.before)
       /\ rec.pc = "Off"

\* RunIfNeeded has returned from a store that a run before it populated and marked.
C19_Witness ==
  /\ rec.cmd = "serve"
  /\ rec.initialized
  /\ rec.pc = "Off"
  /\ rec.started = 2
  /\ rec.runs = 1
  /\ ListImages(db) = CatalogRefs


\* C20: the initialization marker is monotonic: no step of a core operation
\* (TrackImage, RemoveImage, a reap cycle, the lock's acquisition and release,
\* RunIfNeeded, Run) takes a store for which IsInitialized is true to one for which
\* it is false.
C20_MarkerStays == [][IsInitialized(db) => IsInitialized(db')]_vars

\* The marker is set, and a reap cycle or a client is about to remove the image
\* ephemeron:initialized.
C20_Witness ==
  /\ IsInitialized(db)
  /\ \E p \in Procs :
       /\ pipe[p] # <<>>
       /\ Head(pipe[p]).op = "DEL"
       /\ Head(pipe[p]).key = initializedKey


\* C28: when the IsInitialized check itself fails, RunIfNeeded returns an error and
\* skips recovery: no repository or tag listing, no TrackImage call and no
\* SetInitialized call.
C28_CheckErrorSkips ==
  rec.checkErr => (rec.err /\ rec.calls = NoCalls /\ rec.pc = "Off")

\* The check failed on a store that is not initialized.
C28_Witness ==
  /\ rec.cmd = "serve"
  /\ rec.checkErr
  /\ rec.pc = "Off"
  /\ ~IsInitialized(db)

\* C29: on an uninitialized store RunIfNeeded runs Run, and calls SetInitialized
\* only after Run returned nil.  When ListRepositories fails, the call returns an
\* error with no TrackImage call and no SetInitialized call and leaves the marker
\* as it was, and the next RunIfNeeded runs recovery again.
C29_MarkAfterRun ==
  /\ (rec.cmd = "serve" /\ rec.calls.mark > 0)
       => (rec.returned /\ ~rec.initialized /\ ~rec.checkErr)
  /\ (rec.cmd = "serve" /\ rec.pc = "Off" /\ ~rec.checkErr /\ ~rec.initialized)
       => rec.calls.catalog >= 1
  /\ rec.reposErr
       => /\ rec.err /\ rec.pc = "Off"
          /\ rec.calls.track = 0 /\ rec.calls.mark = 0
          /\ IsInitialized(db) <=> IsInitialized(rec.before)
  /\ (rec.cmd = "serve" /\ rec.prevReposErr /\ ~IsInitialized(rec.before)
        /\ rec.pc = "Off" /\ ~rec.checkErr)
       => rec.calls.catalog >= 1

\* After a call that failed to list the repositories, the next RunIfNeeded has
\* recovered and marked the store.
C29_Witness ==
  /\ rec.cmd = "serve"
  /\ rec.prevReposErr
  /\ rec.pc = "Off"
  /\ rec.returned
  /\ rec.calls.mark = 1
  /\ ~rec.err
  /\ db[initializedKey] = StrVal(<<"true">>)

\* The call of TrackImage that Run owes to tag k of repository n.
PassedTag(n, k) ==
  \E c \in rec.passed :
    /\ c.ref = ImageWithTag(Catalog[n].repo, Catalog[n].tags[k])
    /\ c.e = c.at * SubMs
             + ClampTTL(ParseTTL(Spell(Catalog[n].tags[k])), DefaultTTL, MaxTTL)
               * 1000 * SubMs

\* C30: a ListTags failure for one repository, or a TrackImage failure for one tag,
\* does not stop Run: every repository is asked for its tags, every tag of every
\* repository whose listing succeeded is passed to TrackImage with
\* expiresAt = now + ClampTTL(ParseTTL(tag)), and Run returns nil.
C30_RunGoesOn ==
  /\ rec.returned
       => /\ rec.calls.catalog = 1 + Len(Catalog)
          /\ \A n \in rec.listed : \A k \in 1..Len(Catalog[n].tags) : PassedTag(n, k)
  /\ (rec.pc = "Off" /\ rec.calls.catalog >= 1 /\ ~rec.reposErr) => rec.returned

\* Run returned nil although the first repository's tags could not be listed and a
\* TrackImage call failed: the second repository's tag was passed to TrackImage.
C30_Witness ==
  /\ rec.returned
  /\ rec.pc = "Off"
  /\ rec.listed = {2}
  /\ PassedTag(2, 1)
  /\ ListImages(db) = {}
  /\ rec.calls.track = 1


\* ------------------------------------------------------------ cycle claims
\* C26: a reap cycle whose AcquireReaperLock returned false is Skipped: it lists
\* nothing, reads no expiry, calls neither the registry nor RemoveImage, reports no
\* error and does not release: the lock stays as its holder set it, and the
\* replica's next step is the lock attempt of its next cycle.
C26_SkippedDoesNothing ==
  /\ [](\A r \in Replicas :
          pc[r] = "Skipped"
            => /\ snap[r] = {} /\ todo[r] = {} /\ invoked[r] = {}
               /\ res[r] = NoRes /\ cur[r] = NoRef
               /\ ~cycleErr[r]
               /\ lease[r] = 0)
  /\ [][\A r \in Replicas :
          /\ RefusedTo(r)
               => /\ LockHeld
                  /\ db' = db /\ lockTTL' = lockTTL
                  /\ holder' = holder /\ lastFailed' = lastFailed
                  /\ pipe' = pipe
          /\ pc[r] = "Skipped" => Len(pipe'[r]) <= Len(pipe[r])
          /\ (pc[r] = "Skipped" /\ pc'[r] # "Skipped")
               => (pc'[r] = "Scanning" /\ ~LockHeld)]_vars

\* A cycle was skipped while the other replica's cycle, holding the lock with its
\* lease running, evaluates.
C26_Witness ==
  /\ pc["r2"] = "Skipped"
  /\ holder = "r1" /\ pc["r1"] = "Evaluating"
  /\ LockHeld /\ lockTTL = 1 /\ lease["r1"] = 1

\* C27: a reap cycle that acquired the lock ends, unless it is cancelled, by
\* releasing it: a failed ListImages takes the cycle to its release with a cycle
\* error, the evaluation of the last reference takes it to its release whatever
\* failed, and after the release the lock is absent.
C27_ReleasedOnEveryPath ==
  [][\A r \in Replicas :
       /\ (pc[r] \in InCycle /\ pc'[r] \notin InCycle /\ crashes' = crashes)
            => (pc[r] = "Release" /\ ~LockHeld')
       /\ (pc[r] = "Scanning" /\ pc'[r] \notin {"Scanning", "Evaluating"}
             /\ crashes' = crashes)
            => (pc'[r] = "Release" /\ cycleErr'[r])
       /\ (pc[r] = "Evaluating" /\ pc'[r] \notin InCycle) => crashes' = crashes + 1]_vars

\* Both replicas are between cycles, no cycle was cancelled, a deletion failed and
\* the lock is absent.
C27_Witness ==
  /\ \A r \in Replicas : pc[r] = "Idle"
  /\ crashes = 0
  /\ lastFailed # {}
  /\ ~LockHeld


\* deleteImage of image i ended well in the cycle of replica r.
Reclaimed(r, i) == res[r][i] \in {"deleted", "gone"}

\* C23: when two reap cycles overlap and both call deleteImage for the same expired
\* image, then however their registry requests and RemoveImage commands interleave,
\* the outcome is that of one cycle: once both have ended, the image is out of the
\* tracking set and has no record if a deleteImage ended well (and is as it was if
\* both failed), the other image's record and membership are untouched, and
\* neither cycle has a cycle error.
C23_OverlapIdempotent ==
  \A r \in Replicas : \A q \in Replicas \ {r} :
    (RefA \in invoked[r] /\ RefA \in invoked[q])
      => /\ ~cycleErr[r] /\ ~cycleErr[q]
         /\ db[RefB] = db0[RefB] /\ RefB \in ListImages(db)
         /\ (Ended(r) /\ Ended(q) /\ pipe[r] = <<>> /\ pipe[q] = <<>>)
              => IF Reclaimed(r, RefA) \/ Reclaimed(q, RefA)
                 THEN RefA \notin ListImages(db) /\ db[RefA] = None
                 ELSE RefA \in ListImages(db) /\ db[RefA] = db0[RefA]

\* Both cycles deleted the same image and have ended: the first took the lock, the
\* second took it when the first one's lease was over.
C23_Witness ==
  /\ Ended("r1") /\ Ended("r2")
  /\ Reclaimed("r1", RefA) /\ res["r2"][RefA] = "gone"
  /\ pipe["r1"] = <<>> /\ pipe["r2"] = <<>>
  /\ lease["r1"] = 0 /\ lease["r2"] > 0
  /\ grants = 1


\* ------------------------------------------------------------ webhook claims
\* The events of a list that are pushes with a repository and a tag.
RECURSIVE Pushes(_)
Pushes(events) ==
  IF events = <<>> THEN <<>>
  ELSE IF Head(events).action = "push" /\ Head(events).repo # ""
          /\ Head(events).tag # ""
       THEN <<Head(events)>> \o Pushes(Tail(events))
       ELSE Pushes(Tail(events))

\* C21: for an authorized request with a decodable body, the handler calls
\* TrackImage exactly once for each event that is a push with a repository and a
\* tag, in order, for repository:tag and with expiresAt = now +
\* ClampTTL(ParseTTL(tag)); the other events cause no call, and the tracking set
\* gains nothing but the pushed images.
C21_OncePerPush ==
  (hook.pc = "Done" /\ hook.status = 200)
    => LET want == Pushes(hook.body.events)
       IN /\ Len(hook.tracks) = Len(want)
          /\ \A k \in 1..Len(want) :
               /\ hook.tracks[k].ref = ImageWithTag(want[k].repo, want[k].tag)
               /\ hook.tracks[k].e =
                    hook.tracks[k].at * SubMs
                    + ClampTTL(ParseTTL(Spell(want[k].tag)), DefaultTTL, MaxTTL)
                      * 1000 * SubMs
          /\ ListImages(db) \subseteq
               hook.before \cup {hook.tracks[k].ref : k \in 1..Len(hook.tracks)}
          /\ want = <<>> => ListImages(db) = hook.before

\* A push and a pull of the same image came in one request: one call, one image.
C21_Witness ==
  /\ hook.pc = "Done" /\ hook.status = 200
  /\ hook.body.events = << [action |-> "pull", repo |-> "myapp", tag |-> "5m"],
                           [action |-> "push", repo |-> "myapp", tag |-> "5m"] >>
  /\ Len(hook.tracks) = 1
  /\ hook.before = {}
  /\ ListImages(db) = {RefA}

\* C22: the endpoint's status names the layer that failed: 401 for a missing or
\* wrong token, 400 for a body that cannot be decoded, both without a TrackImage
\* call, and a status other than 200 when TrackImage failed for a push.
C22_StatusNamesLayer ==
  (hook.pc = "Done" /\ hook.method = "POST")
    => /\ hook.auth # <<"Token ", hookToken>>
            => (hook.status = 401 /\ hook.tracks = <<>>)
       /\ (hook.auth = <<"Token ", hookToken>> /\ ~hook.body.ok)
            => (hook.status = 400 /\ hook.tracks = <<>>)
       /\ hook.errs > 0 => hook.status # 200

\* A request whose push could not be tracked has been answered.
C22_Witness ==
  /\ hook.pc = "Done"
  /\ hook.method = "POST"
  /\ hook.errs = 1
  /\ Len(hook.tracks) = 1
  /\ ListImages(db) = {}

\* ------------------------------------------------------------ command claims
\* What an invocation of the runner that began on an uninitialized store leaves when
\* it returns, in terms of what the registry and the store answered: the tracking
\* set keeps its members and gains only images TrackImage was called for, every
\* image of the catalog when nothing failed, and the marker is "true" exactly when
\* Run returned nil and SetInitialized succeeded.
RecoveryOutcome ==
  /\ ListImages(rec.before) \subseteq ListImages(db)
  /\ ListImages(db) \subseteq
       ListImages(rec.before) \cup {c.ref : c \in rec.passed}
  /\ {c.ref : c \in rec.passed} \subseteq CatalogRefs
  /\ (rec.returned /\ ~rec.failed)
       => ListImages(db) = ListImages(rec.before) \cup CatalogRefs
  /\ ~rec.returned => (rec.passed = {} /\ rec.calls.mark = 0)
  /\ (db[initializedKey] = StrVal(<<"true">>)) <=> (rec.returned /\ ~rec.err)

\* An invocation that ran recovery on an uninitialized store: the recover command,
\* or the service's RunIfNeeded whose check answered false.
RanRecovery ==
  /\ ~IsInitialized(rec.before)
  /\ \/ rec.cmd = "recover"
     \/ rec.cmd = "serve" /\ ~rec.checkErr

\* What a process that has just been started knows of reap cycles: nothing.
FreshProcess(r) ==
  /\ snap[r] = {} /\ todo[r] = {} /\ cur[r] = NoRef /\ cycleNow[r] = 0
  /\ ~cycleErr[r] /\ invoked[r] = {} /\ res[r] = NoRes /\ lease[r] = 0

\* C24: the commands do what the service does.  The recover command and the
\* service's RunIfNeeded, on an uninitialized store, return with the same outcome:
\* the one RecoveryOutcome describes, which does not depend on the command.  A reap
\* cycle of the service's loop starts from what a freshly started process knows,
\* which is how the reap command starts its one cycle, takes the lock first, and
\* ends with the release of the lock.
C24_CommandsAsService ==
  [][ /\ (rec.pc # "Off" /\ rec'.pc = "Off" /\ RanRecovery') => RecoveryOutcome'
      /\ (pc[Reaper] \in {"Idle", "Skipped"} /\ pc'[Reaper] \notin {"Idle", "Skipped"})
           => /\ FreshProcess(Reaper)
              /\ pc'[Reaper] = "Scanning"
              /\ db[reaperLockKey].t = "none" /\ db'[reaperLockKey].t # "none"
      /\ (pc[Reaper] \notin {"Idle", "Skipped"} /\ pc'[Reaper] \in {"Idle", "Skipped"})
           => /\ pc[Reaper] = "Release" /\ pc'[Reaper] = "Idle"
              /\ db'[reaperLockKey].t = "none"
              /\ FreshProcess(Reaper)'
    ]_vars

\* A reap cycle has ended with a failed deletion, the image was removed, and the
\* recover command then recovered the catalog on the uninitialized store.
C24_Witness ==
  /\ lastFailed = {RefInit}
  /\ pc[Reaper] = "Idle"
  /\ rec.cmd = "recover"
  /\ rec.pc = "Off"
  /\ rec.returned /\ ~rec.err
  /\ ~IsInitialized(rec.before)
  /\ ListImages(db) = CatalogRefs
  /\ db[initializedKey] = StrVal(<<"true">>)

\* ------------------------------------------------------------ configuration claims
\* A configuration with the three addresses and 0 < DefaultTTL <= MaxTTL.
Sound(c) ==
  /\ c.RedisURL # "" /\ c.HookToken # "" /\ c.RegistryURL # ""
  /\ 0 < c.DefaultTTL /\ c.DefaultTTL <= c.MaxTTL

\* C25: Validate returns no error only if RedisURL, HookToken and RegistryURL are
\* not empty and 0 < DefaultTTL <= MaxTTL; serve, reap and recover, when Validate
\* fails, return its error and have not called redisclient.New, and the store is
\* as it was.
C25_ValidateBeforeStore ==
  /\ (cli.pc = "Checked" /\ cli.err = NoErr) => Sound(cli.cfg)
  /\ (cli.cmd \in Commands /\ ~Sound(cli.cfg))
       => /\ cli.pc = "Exit"
          /\ cli.err \notin {NoErr, "connecting to redis"}
          /\ ~cli.dialed
          /\ db = db0
  /\ cli.dialed => Sound(cli.cfg)

\* The serve command has returned the error of a configuration whose DefaultTTL
\* exceeds its MaxTTL, both positive.
C25_Witness ==
  /\ cli.pc = "Exit"
  /\ cli.cmd = "serve"
  /\ cli.cfg.DefaultTTL = 48 * Hour
  /\ cli.cfg.MaxTTL = 24 * Hour
  /\ cli.cfg.HookToken = "test-token"
  /\ cli.err = "DEFAULT_TTL must not exceed MAX_TTL"
  /\ ~cli.dialed

\* ------------------------------------------------------------ reap cycle claims, continued
\* The reference is a repository part, one colon and a tag part, neither part empty.
SplitsInTwo(i) ==
  \E q \in 2..(Len(i) - 1) :
    /\ i[q] = Colon
    /\ \A k \in (1..Len(i)) \ {q} : i[k] # Colon

\* C31: for an expired reference that does not split into a repository part and a
\* tag part, deleteImage fails before any request goes to the registry: no HEAD and
\* no DELETE is ever under way for it, its outcome is a failure, its record and
\* its membership stay, no RemoveImage is sent for it, and the cycle goes on
\* through the rest of the snapshot and returns no error of its own.
C31_MalformedFailsFast ==
  \A r \in Replicas :
    \A i \in Refs :
      ~SplitsInTwo(i)
      => /\ cur[r] # i
         /\ i \in invoked[r] => res[r][i] = "failed"
         /\ res[r][i] \in {"none", "failed"}
         /\ \A k \in 1..Len(pipe[r]) : pipe[r][k].key # i /\ pipe[r][k].a1 # i
         /\ Tracked(db0, i) => (Tracked(db, i) /\ db[i] = db0[i])
         /\ (res[r][i] = "failed" /\ Ended(r))
              => /\ ~cycleErr[r]
                 /\ todo[r] = {}
                 /\ \A j \in snap[r] :
                      (Tracked(db0, j) /\ ExpiresOf(db0, j) < cycleNow[r])
                        => j \in invoked[r]

\* A cycle has failed on the malformed reference and deleted a well-formed one.
C31_Witness ==
  /\ Ended("r1")
  /\ res["r1"][RefBad] = "failed"
  /\ Tracked(db, RefBad)
  /\ res["r1"][RefA] = "deleted"
  /\ ~Tracked(db, RefA)
  /\ RefB \notin snap["r1"]

\* What one evaluation does with the reference it takes from the snapshot: when the
\* reference has no record, nothing; the cycle stays in Evaluating.
SkippedAbsent(r, i) ==
  (i \in todo[r] /\ i \notin todo'[r] /\ pc[r] = "Evaluating" /\ db[i].t # "hash")
    => /\ i \notin invoked'[r]
       /\ pipe'[r] = pipe[r]
       /\ pc'[r] = "Evaluating"
       /\ cur'[r] = cur[r]
       /\ res'[r] = res[r]
       /\ ~cycleErr'[r]
       /\ db' = db

\* C36 as stated: deleteImage is called only for a reference whose record held, at
\* the evaluation, an expiry earlier than the cycle's clock; a reference without a
\* record is skipped with no request, no RemoveImage and no error, and the cycle
\* goes on.
C36_OnlyEarlierInvoked ==
  [][\A r \in Replicas : \A i \in Refs :
       /\ (i \in invoked'[r] /\ i \notin invoked[r])
            => (db[i].t = "hash" /\ ExpiresOf(db, i) < cycleNow[r])
       /\ SkippedAbsent(r, i)]_vars

\* C36 amended: the same, for an expiry not later than the cycle's clock.
C36_OnlyExpiredInvoked ==
  [][\A r \in Replicas : \A i \in Refs :
       /\ (i \in invoked'[r] /\ i \notin invoked[r])
            => (db[i].t = "hash" /\ ExpiresOf(db, i) <= cycleNow[r])
       /\ SkippedAbsent(r, i)]_vars

\* The cycle listed both images, found one without a record and skipped it, and
\* called deleteImage for the other.
C36_Witness ==
  /\ pc[Reaper] = "Evaluating"
  /\ snap[Reaper] = {RefA, RefB}
  /\ todo[Reaper] = {}
  /\ RefA \notin invoked[Reaper]
  /\ RefB \in invoked[Reaper]
  /\ db[RefA].t # "hash"

\* The server executes a command of the cycle's RemoveImage for image i.
RemovalLands(r, i) ==
  /\ pipe[r] # <<>>
  /\ pipe'[r] = Tail(pipe[r])
  /\ \/ Head(pipe[r]).op = "SREM" /\ Head(pipe[r]).a1 = i
     \/ Head(pipe[r]).op = "DEL" /\ Head(pipe[r]).key = i

\* The registry accepts the cycle's DELETE of image i's manifest.
ManifestDeleted(r, i) ==
  /\ pc[r] = "Delete" /\ cur[r] = i
  /\ pc'[r] = "Removing" /\ res'[r][i] = "deleted"

\* C34: while a client tracks the image a cycle is working on, the cycle's
\* RemoveImage lands, and the registry deletes the manifest for the cycle, only
\* when the expiry then stored for the image is not later than the clock.
C34_RemovalSeesStoredExpiry ==
  [][\A i \in PushRefs :
       ((RemovalLands(Reaper, i) \/ ManifestDeleted(Reaper, i)) /\ db[i].t = "hash")
         => ExpiresOf(db, i) <= now]_vars

\* The cycle read an expiry that had passed, the image was tracked again with an
\* expiry ahead of the clock, the registry deleted the manifest, and the cycle's
\* RemoveImage is on its way.
C34_Witness ==
  /\ pc[Reaper] = "Removing"
  /\ res[Reaper][RefA] = "deleted"
  /\ pipe[Reaper] = RemoveImage(RefA)
  /\ \A c \in Writers : pipe[c] = <<>>
  /\ Tracked(db, RefA)
  /\ ExpiresOf(db, RefA) > now

\* C35: a reap cycle leaves every tracked image whose expiry is ahead of the clock
\* resolvable in the registry, one whose tag points to the manifest of an expired
\* image included.
C35_FutureStaysResolvable ==
  [][\A i \in Refs :
       (Tracked(db, i) /\ ExpiresOf(db, i) > now /\ registry[i] \in Digests)
         => registry'[i] \in Digests]_vars

\* The cycle deleted the expired myapp:5m by its digest; myapp:1h, tracked with an
\* expiry ahead of the clock and never handed to deleteImage, resolves no more.
C35_Witness ==
  /\ res[Reaper][RefA] = "deleted"
  /\ registry[RefA] = Gone
  /\ Tracked(db, RefB) /\ ExpiresOf(db, RefB) > now
  /\ RefB \notin invoked[Reaper]
  /\ registry[RefB] = Gone

\* A step of the recovery runner: it moves, or the server executes one of its
\* commands.
RunnerStep == rec' # rec \/ pipe'["rec"] # pipe["rec"]

\* C37: recovery only adds or overwrites.  No step of RunIfNeeded or of Run sends a
\* command of RemoveImage, takes or releases the reaper lock, drops a member of the
\* tracking set or deletes a key: whatever was tracked stays tracked, a reference
\* the catalog does not hold too, and the lock is what it was.
C37_RecoveryOnlyAdds ==
  [][RunnerStep
       => /\ \A k \in 1..Len(pipe'["rec"]) : pipe'["rec"][k].op \in {"SADD", "HSET"}
          /\ db'[reaperLockKey] = db[reaperLockKey]
          /\ lockTTL' = lockTTL
          /\ ListImages(db) \subseteq ListImages(db')
          /\ \A i \in Keys : db[i].t # "none" => db'[i].t # "none"]_vars

\* A run has ended well while the reaper held the lock: the catalog is tracked, the
\* reference the catalog does not hold is tracked still, and the lock is held.
C37_Witness ==
  /\ rec.pc = "Off" /\ rec.returned /\ ~rec.err
  /\ rec.before[reaperLockKey].t # "none"
  /\ db[reaperLockKey].t # "none"
  /\ pc[Reaper] \in InCycle
  /\ ListImages(db) = CatalogRefs \cup {RefBad}
  /\ db[RefBad] = StaleDb[RefBad]

\* C38: when RunIfNeeded on an uninitialized store has returned without error and
\* set the marker, every repository:tag of the catalog is a member of the tracking
\* set and has a record.
C38_MarkedMeansPopulated ==
  (/\ rec.cmd = "serve" /\ rec.pc = "Off" /\ ~rec.err
   /\ ~IsInitialized(rec.before)
   /\ rec.calls.mark = 1
   /\ db[initializedKey] = StrVal(<<"true">>))
    => \A i \in CatalogRefs : Tracked(db, i)

\* ListTags failed for the repository myapp; RunIfNeeded tracked the rest of the
\* catalog, set the marker and returned nil, and no tag of myapp is tracked.
C38_Witness ==
  /\ rec.cmd = "serve" /\ rec.pc = "Off" /\ ~rec.err
  /\ rec.before = EmptyDb
  /\ rec.calls.mark = 1
  /\ db[initializedKey] = StrVal(<<"true">>)
  /\ rec.listed = {2}
  /\ rec.calls.track = 1
  /\ ListImages(db) = {RefInit}

\* C39: for a tag of the grammar that writes more than maxTTL, however long its
\* numbers, ClampTTL(ParseTTL(tag), defaultTTL, maxTTL) is maxTTL.
C39_HugeTagGetsMax ==
  (/\ tagCase.step = "clamped"
   /\ ValidConfig
   /\ InGrammar(tagCase.tag)
   /\ WrittenDuration(tagCase.tag) > tagCase.maxTTL)
    => tagCase.out = tagCase.maxTTL

\* The tag 19w writes more than the machine integer holds: ParseTTL returns a
\* negative duration and the image gets the default of one hour, not the maximum.
C39_Witness ==
  /\ tagCase.step = "clamped"
  /\ tagCase.tag = <<"1", "9", "w">>
  /\ tagCase.defaultTTL = Hour
  /\ tagCase.maxTTL = 24 * Hour
  /\ tagCase.d < 0
  /\ tagCase.out = Hour

\* ------------------------------------------------------------ registry client claims
\* The names of the pages, one page after the other.
RECURSIVE Concat(_, _)
Concat(pages, k) == IF k = 0 THEN <<>> ELSE Concat(pages, k - 1) \o pages[k].names

\* A request of the call went wrong: the fault lies on a page the registry holds.
Faulted == listing.fault.at \in 1..Len(listing.pages)

\* C33: a listing asks for every page once, following each Link until a response
\* has none, and returns the names of all pages in order; when a request or the
\* decoding of a page fails, it returns an error and no list.
C33_DrainsPagination ==
  (listing.pc = "Done")
    => IF Faulted
       THEN listing.err /\ listing.result = <<>>
       ELSE /\ ~listing.err
            /\ listing.calls = Len(listing.pages)
            /\ listing.result = Concat(listing.pages, Len(listing.pages))

\* C33 without error statuses: the same, when a request goes wrong by its
\* transport or by a body that is no JSON.
C33_DrainsUnlessStatus ==
  (listing.pc = "Done" /\ listing.fault.kind # "status")
    => IF Faulted
       THEN listing.err /\ listing.result = <<>>
       ELSE /\ ~listing.err
            /\ listing.calls = Len(listing.pages)
            /\ listing.result = Concat(listing.pages, Len(listing.pages))

\* The registry answered the request for the second of two pages with an error
\* status: the call returned the first page as the whole list, without error.
C33_Witness ==
  /\ listing.pc = "Done"
  /\ listing.op = "tags"
  /\ Len(listing.pages) = 2
  /\ listing.pages[1].names = <<"app1">>
  /\ listing.pages[2].names = <<"app2", "app3">>
  /\ listing.fault = [at |-> 2, kind |-> "status"]
  /\ ~listing.err
  /\ listing.calls = 2
  /\ listing.result = <<"app1">>

\* ------------------------------------------------------------ start-up claims
\* Nothing of the service has started: the runner was never invoked, no reap cycle
\* has begun, no push was taken, the store is as it was.
NothingStarted == rec = NoRec /\ FreshCycles /\ db = db0

\* RunIfNeeded has been called and has returned.
Reconciled == rec.started > 0 /\ rec.pc = "Off"

\* A reap cycle has begun, or has run.
CycleBegun == pc[Reaper] # "Idle" \/ pipe[Reaper] # <<>> \/ grants # 0

\* C32: in serve, a failed ping ends start-up before the reconciliation, the reap
\* loop and the HTTP servers; an error of RunIfNeeded does not end it: the next
\* step starts the reap loop, and the endpoint is served after it; and no reap
\* cycle begins before RunIfNeeded has returned.
C32_StartUpOrder ==
  /\ [](cli.err = "redis ping failed" => cli.pc = "Exit" /\ NothingStarted)
  /\ [](cli.pc \in {"Looping", "Serving"} => Reconciled /\ cli.err = NoErr)
  /\ [](CycleBegun => Reconciled /\ cli.pc \in {"Looping", "Serving"})
  /\ [][(Reconciled /\ rec.err /\ cli' # cli)
         => cli.pc # "Exit" /\ cli'.err = NoErr
            /\ cli'.pc = IF cli.pc = "Pinged" THEN "Looping" ELSE "Serving"]_vars

\* RunIfNeeded returned an error, and the service runs: a reap cycle is under way
\* and the endpoint has taken a push.
C32_Witness ==
  /\ cli.pc = "Serving"
  /\ Reconciled
  /\ rec.err
  /\ pc[Reaper] \in InCycle
  /\ \E c \in Pushers : pipe[c] # <<>>

\* The ping failed and start-up ended.
C32_PingFailed == cli.pc = "Exit" /\ cli.err = "redis ping failed" /\ NothingStarted

====
